---------------------------- MODULE Spec2Model ----------------------------
(***************************************************************************)
(* A model of zcert (zgo.at/zcert): the root certificate authority held by *)
(* a CARoot value, its two files on disk, leaf issuance and the TLS        *)
(* GetCertificate callback with its per-hostname cache.                    *)
(*                                                                         *)
(* Abstractions.  A key pair is a positive number k: the private key k     *)
(* signs, the public key k verifies.  crypto/rand is modelled as a source  *)
(* of fresh values: the n-th successful draw yields serial n and key n     *)
(* (serials and keys are different name spaces), i.e. 128-bit serials and  *)
(* P-256 keys never collide.  Every file operation and every draw may      *)
(* fail; the failing step is the parameter f of an action.                 *)
(***************************************************************************)
EXTENDS Integers, Sequences, FiniteSets, TLC

\* Bound on the number of values drawn from crypto/rand in one behaviour.
MaxRand == 3

\* Bound on the number of identifiers in one request to MakeCert.
MaxHosts == 2

VARIABLES
    env,    \* TRUE iff StorePath() resolves to a non-empty path
    disk,   \* [dir, cert, key]: the storage directory and the two root files
    ca,     \* the caller's CARoot value: [cert, key]
    nrand,  \* number of values drawn so far from crypto/rand
    out,    \* what the latest MakeCert call wrote to the io.Writer it was given
    last,   \* the latest call and what it returned
    tlsca,  \* the CARoot copy captured by the closure of TLSConfig()
    certs,  \* the map certs of the closure of TLSConfig()
    pc,     \* position of each concurrent GetCertificate invocation
    arg,    \* hello.ServerName of each concurrent invocation
    loc,    \* the local variable c of each concurrent invocation
    goos,   \* runtime.GOOS
    environ,\* the environment variables StorePath reads
    paths,  \* what the latest StorePath() call returned
    machine,\* what the trust-store backends find on the machine
    stores, \* the content of the trust stores of the machine
    run,    \* what the latest Install or Uninstall of CARoot did
    req,    \* the arguments of the MakeCert calls of a run: [client, hosts]
    privWarning, \* the sync.Once of package truststore and what it printed
    gos     \* the goroutines that call privCmd: position, arguments, result

\* The operating system, the environment, the trust stores and the request.
xvars == <<goos, environ, paths, machine, stores, run, req, privWarning, gos>>

vars == <<env, disk, ca, nrand, out, last, tlsca, certs, pc, arg, loc, xvars>>

-----------------------------------------------------------------------------
(* Values *)

\* A nil crypto.PrivateKey / crypto.PublicKey.
NoKey == 0

RootSubject == "zcert development CA"
LeafSubject == "zcert development certificate"

\* The public key of a private key (privKey.(crypto.Signer).Public()).
Public(priv) == priv

\* A nil *x509.Certificate: it has no fields to read.
NilCert == [isnil |-> TRUE]

\* &x509.Certificate{}: a certificate value with every field zero.
\* raw: Raw/RawSubject are filled in (only a parsed certificate has them);
\* sig: the key that made the signature (only a parsed certificate has one).
Certificate == [isnil |-> FALSE, raw |-> FALSE, serial |-> 0, subject |-> "",
                issuer |-> "", pub |-> NoKey, sig |-> NoKey, isCA |-> FALSE,
                cn |-> "", ips |-> <<>>, emails |-> <<>>, uris |-> <<>>,
                dns |-> <<>>, eku |-> <<>>]

\* The zero value of CARoot.
ZeroCA == [cert |-> NilCert, key |-> NoKey]

\* A file: absent ("none"), present with truncated content ("partial"), or
\* present and complete ("ok") with the PEM block it holds: the DER bytes of
\* a certificate (der) or a private key (key).
NoFile == [state |-> "none"]
PartialFile == [state |-> "partial"]
CertPEM(der) == [state |-> "ok", der |-> der]
KeyPEM(priv) == [state |-> "ok", key |-> priv]

EmptyDisk == [dir |-> FALSE, cert |-> NoFile, key |-> NoFile]

\* A nil *tls.Certificate; one that is not nil is [isnil, der, key].
NilTLS == [isnil |-> TRUE]

\* The record of a call: its name and arguments, what it returned, and what
\* was observed when it was made (certOnDisk, serial: the certificate file and
\* the serial in it; prev: the same of the call before it).
NoPrev == [op |-> "none", res |-> "ok", certOnDisk |-> FALSE, serial |-> 0]
NoCall == [op |-> "none", res |-> "ok", created |-> FALSE, serial |-> 0,
           certOnDisk |-> FALSE, client |-> FALSE, hosts |-> <<>>,
           ret |-> NilTLS, prev |-> NoPrev]

-----------------------------------------------------------------------------
(* The storage location *)

\* The values of runtime.GOOS the model distinguishes; "linux" stands for
\* every Unix that is not macOS.
OSes == {"linux", "darwin", "windows"}

\* The environment variables StorePath reads; "" is an unset or empty one.
NoEnviron == [CAROOT |-> "", LocalAppData |-> "", XDG_DATA_HOME |-> "",
              HOME |-> ""]

\* A path is the sequence of its elements, "" the empty sequence.
Path(s) == IF s = "" THEN <<>> ELSE <<s>>

\* filepath.Join: empty elements are ignored.
Join(p, elems) == p \o SelectSeq(elems, LAMBDA x : x # "")

\* The two empty strings StorePath returns without a directory.
NoPaths == [cert |-> <<>>, key |-> <<>>]

\* StorePath that looks at XDG_DATA_HOME before it looks at the system.
StorePath_XDGFirst(os, e) ==
    LET dir == IF e.CAROOT # "" THEN Path(e.CAROOT)
               ELSE IF e.XDG_DATA_HOME # "" THEN Path(e.XDG_DATA_HOME)
               ELSE IF os = "windows" THEN Path(e.LocalAppData)
               ELSE IF os = "darwin"
                    THEN IF e.HOME = "" THEN <<>>
                         ELSE Join(Path(e.HOME),
                                   <<"Library", "Application Support">>)
               ELSE IF e.HOME = "" THEN <<>>
                    ELSE Join(Path(e.HOME), <<".local", "share">>)
    IN  IF dir = <<>> THEN NoPaths
        ELSE [cert |-> Join(dir, <<"zcert", "rootCA.pem">>),
              key |-> Join(dir, <<"zcert", "rootCA-key.pem">>)]

\* CARoot.StorePath.
StorePath(os, e) ==
    LET dir == IF e.CAROOT # "" THEN Path(e.CAROOT)
               ELSE IF os = "windows" THEN Path(e.LocalAppData)
               ELSE IF e.XDG_DATA_HOME # "" THEN Path(e.XDG_DATA_HOME)
               ELSE IF os = "darwin"
                    THEN IF e.HOME = "" THEN <<>>
                         ELSE Join(Path(e.HOME),
                                   <<"Library", "Application Support">>)
               ELSE IF e.HOME = "" THEN <<>>
                    ELSE Join(Path(e.HOME), <<".local", "share">>)
    IN  IF dir = <<>> THEN NoPaths
        ELSE [cert |-> Join(dir, <<"zcert", "rootCA.pem">>),
              key |-> Join(dir, <<"zcert", "rootCA-key.pem">>)]

-----------------------------------------------------------------------------
(* crypto/x509 and crypto/tls, as far as zcert uses them *)

\* x509.CreateCertificate(rand, template, parent, pub, priv), the DER bytes
\* it returns: the subject and the names come from the template, the issuer
\* is the parent's subject, the public key is the argument pub, the signature
\* is made with priv.
CreateCertificate(template, parent, pub, priv) ==
    [serial |-> template.serial, subject |-> template.subject,
     issuer |-> parent.subject, pub |-> pub, signer |-> priv,
     isCA |-> template.isCA, cn |-> template.cn, ips |-> template.ips,
     emails |-> template.emails, uris |-> template.uris,
     dns |-> template.dns, eku |-> template.eku]

\* x509.ParseCertificate(der).
ParseCertificate(der) ==
    [isnil |-> FALSE, raw |-> TRUE, serial |-> der.serial,
     subject |-> der.subject, issuer |-> der.issuer, pub |-> der.pub,
     sig |-> der.signer, isCA |-> der.isCA, cn |-> der.cn, ips |-> der.ips,
     emails |-> der.emails, uris |-> der.uris, dns |-> der.dns,
     eku |-> der.eku]

\* tls.LoadX509KeyPair(rootCert, rootKey): both files must be readable and
\* hold a complete PEM block, and the private key must belong to the public
\* key of the certificate.  f = "read" is a failing read.
LoadX509KeyPair(cf, kf, f) ==
    IF f # "read" /\ cf.state = "ok" /\ kf.state = "ok"
       /\ cf.der.pub = Public(kf.key)
    THEN [ok |-> TRUE, der |-> cf.der, key |-> kf.key]
    ELSE [ok |-> FALSE]

\* c.Verify(x509.VerifyOptions{Roots: pool}) with a pool holding root only:
\* root is a candidate when its subject is the issuer of c, and the chain is
\* accepted when the signature of c checks under root.PublicKey.
Verify(c, root) ==
    /\ ~root.isnil
    /\ c.issuer = root.subject
    /\ root.pub # NoKey
    /\ c.sig = root.pub

-----------------------------------------------------------------------------
(* The root certificate *)

\* CARoot.Exists: pathExists(rootCert); StorePath() gives "" without a
\* resolvable directory, and os.Stat("") fails.
Exists(e, d) == e /\ d.cert.state # "none"

\* The template of CARoot.Create.
RootTemplate(serial) ==
    [Certificate EXCEPT !.serial = serial, !.subject = RootSubject,
                        !.isCA = TRUE]

CreateFaults == {"none", "mkdir", "gen", "keyOpen", "keyWrite", "certOpen",
                 "certWrite"}

\* Create without the check of ca.Exists().
CreateOutcome_NoExistsCheck(e, d, c, n, f) ==
    LET priv == n + 1
        tpl == RootTemplate(n + 1)
        der == CreateCertificate(tpl, tpl, Public(priv), priv)
        d1 == [d EXCEPT !.dir = TRUE]
        fail(dd, nn) == [res |-> "err", disk |-> dd, ca |-> c, nrand |-> nn]
    IN  IF ~e THEN fail(d, n)
        ELSE IF f = "mkdir" THEN fail(d, n)
        ELSE IF f = "gen" THEN fail(d1, n)
        ELSE IF f = "keyOpen" THEN fail(d1, n + 1)
        ELSE IF f = "keyWrite"
             THEN fail([d1 EXCEPT !.key = PartialFile], n + 1)
        ELSE IF f = "certOpen"
             THEN fail([d1 EXCEPT !.key = KeyPEM(priv)], n + 1)
        ELSE IF f = "certWrite"
             THEN fail([d1 EXCEPT !.key = KeyPEM(priv), !.cert = PartialFile],
                       n + 1)
        ELSE [res |-> "ok",
              disk |-> [d1 EXCEPT !.key = KeyPEM(priv), !.cert = CertPEM(der)],
              ca |-> [cert |-> tpl, key |-> priv],
              nrand |-> n + 1]

\* CARoot.Create on CARoot c with n values drawn so far; f is the step that
\* fails.  ioutil.WriteFile that fails at open leaves the file as it was, one
\* that fails while writing leaves a truncated file.
CreateOutcome(e, d, c, n, f) ==
    LET priv == n + 1
        tpl == RootTemplate(n + 1)
        der == CreateCertificate(tpl, tpl, Public(priv), priv)
        d1 == [d EXCEPT !.dir = TRUE]
        fail(dd, nn) == [res |-> "err", disk |-> dd, ca |-> c, nrand |-> nn]
    IN  IF ~e THEN fail(d, n)
        ELSE IF Exists(e, d) THEN fail(d, n)
        ELSE IF f = "mkdir" THEN fail(d, n)
        ELSE IF f = "gen" THEN fail(d1, n)
        ELSE IF f = "keyOpen" THEN fail(d1, n + 1)
        ELSE IF f = "keyWrite"
             THEN fail([d1 EXCEPT !.key = PartialFile], n + 1)
        ELSE IF f = "certOpen"
             THEN fail([d1 EXCEPT !.key = KeyPEM(priv)], n + 1)
        ELSE IF f = "certWrite"
             THEN fail([d1 EXCEPT !.key = KeyPEM(priv), !.cert = PartialFile],
                       n + 1)
        ELSE [res |-> "ok",
              disk |-> [d1 EXCEPT !.key = KeyPEM(priv), !.cert = CertPEM(der)],
              ca |-> [cert |-> tpl, key |-> priv],
              nrand |-> n + 1]

LoadFaults == {"none", "read"}

\* CARoot.Load on CARoot c.
LoadOutcome(e, d, c, f) ==
    LET pair == LoadX509KeyPair(d.cert, d.key, f)
    IN  IF ~Exists(e, d) THEN [res |-> "err", ca |-> c]
        ELSE IF ~pair.ok THEN [res |-> "err", ca |-> c]
        ELSE [res |-> "ok",
              ca |-> [cert |-> ParseCertificate(pair.der), key |-> pair.key]]

DeleteFaults == {"none", "rmCert", "rmKey", "rmDir"}

\* Delete without the os.Remove of the directory.
DeleteOutcome_KeepsDir(e, d, f) ==
    IF ~Exists(e, d) THEN [res |-> "ok", disk |-> d]
    ELSE IF f = "rmCert" THEN [res |-> "err", disk |-> d]
    ELSE IF f = "rmKey" \/ d.key.state = "none"
         THEN [res |-> "err", disk |-> [d EXCEPT !.cert = NoFile]]
    ELSE [res |-> "ok", disk |-> [d EXCEPT !.cert = NoFile, !.key = NoFile]]

\* Delete that removes the key file before the certificate file.
DeleteOutcome_KeyFirst(e, d, f) ==
    IF ~Exists(e, d) THEN [res |-> "ok", disk |-> d]
    ELSE IF f = "rmKey" \/ d.key.state = "none"
         THEN [res |-> "err", disk |-> d]
    ELSE IF f = "rmCert"
         THEN [res |-> "err", disk |-> [d EXCEPT !.key = NoFile]]
    ELSE IF f = "rmDir"
         THEN [res |-> "err",
               disk |-> [d EXCEPT !.cert = NoFile, !.key = NoFile]]
    ELSE [res |-> "ok", disk |-> EmptyDisk]

\* CARoot.Delete.
DeleteOutcome(e, d, f) ==
    IF ~Exists(e, d) THEN [res |-> "ok", disk |-> d]
    ELSE IF f = "rmCert" THEN [res |-> "err", disk |-> d]
    ELSE IF f = "rmKey" \/ d.key.state = "none"
         THEN [res |-> "err", disk |-> [d EXCEPT !.cert = NoFile]]
    ELSE IF f = "rmDir"
         THEN [res |-> "err",
               disk |-> [d EXCEPT !.cert = NoFile, !.key = NoFile]]
    ELSE [res |-> "ok", disk |-> EmptyDisk]

\* New with created = true moved out of the branch.
NewOutcome_CreatedAlways(e, d, n, f) ==
    IF ~Exists(e, d)
    THEN LET o == CreateOutcome(e, d, ZeroCA, n, f)
         IN  [res |-> o.res, created |-> TRUE, disk |-> o.disk, ca |-> o.ca,
              nrand |-> o.nrand]
    ELSE LET o == LoadOutcome(e, d, ZeroCA, f)
         IN  [res |-> o.res, created |-> TRUE, disk |-> d, ca |-> o.ca,
              nrand |-> n]

\* New: a zero CARoot that is created when no root exists, loaded otherwise.
NewOutcome(e, d, n, f) ==
    IF ~Exists(e, d)
    THEN LET o == CreateOutcome(e, d, ZeroCA, n, f)
         IN  [res |-> o.res, created |-> TRUE, disk |-> o.disk, ca |-> o.ca,
              nrand |-> o.nrand]
    ELSE LET o == LoadOutcome(e, d, ZeroCA, f)
         IN  [res |-> o.res, created |-> FALSE, disk |-> d, ca |-> o.ca,
              nrand |-> n]

-----------------------------------------------------------------------------
(* Issuing leaf certificates *)

\* The identifiers the model passes to MakeCert.
Identifiers ==
    {"10.0.0.1", "::1", "user@example.com", "Bob <bob@example.com>",
     "https://example.com/path", "mailto:user@example.com", "//example.com",
     "example.com"}

\* net.ParseIP(h) != nil: h is an IPv4 or IPv6 literal.
ParseIP(h) == h \in {"10.0.0.1", "::1"}

\* mail.ParseAddress(h): an RFC 5322 address, with or without display name.
\* A colon is no part of an unquoted local part, and a host name alone has
\* no "@".
ParseAddress(h) ==
    IF h = "user@example.com"
    THEN [err |-> FALSE, Name |-> "", Address |-> "user@example.com"]
    ELSE IF h = "Bob <bob@example.com>"
    THEN [err |-> FALSE, Name |-> "Bob", Address |-> "bob@example.com"]
    ELSE [err |-> TRUE, Name |-> "", Address |-> ""]

\* url.Parse(h): fails for a string that starts with a colon; a string
\* without "scheme:" is a path, or a host when it starts with "//"; after
\* "scheme:" only "//" starts a host.
Parse(h) ==
    IF h = "::1" THEN [err |-> TRUE, Scheme |-> "", Host |-> ""]
    ELSE IF h = "https://example.com/path"
    THEN [err |-> FALSE, Scheme |-> "https", Host |-> "example.com"]
    ELSE IF h = "mailto:user@example.com"
    THEN [err |-> FALSE, Scheme |-> "mailto", Host |-> ""]
    ELSE IF h = "//example.com"
    THEN [err |-> FALSE, Scheme |-> "", Host |-> "example.com"]
    ELSE [err |-> FALSE, Scheme |-> "", Host |-> ""]

\* HostKind taking every string that parses as a mail address for an email
\* address.
HostKind_AnyAddress(h) ==
    IF ParseIP(h) THEN "ip"
    ELSE IF ~ParseAddress(h).err THEN "email"
    ELSE IF ~Parse(h).err /\ Parse(h).Scheme # "" /\ Parse(h).Host # ""
    THEN "uri"
    ELSE "dns"

\* The list one identifier goes to: the first test that passes decides.
HostKind(h) ==
    IF ParseIP(h) THEN "ip"
    ELSE IF ~ParseAddress(h).err /\ ParseAddress(h).Address = h THEN "email"
    ELSE IF ~Parse(h).err /\ Parse(h).Scheme # "" /\ Parse(h).Host # ""
    THEN "uri"
    ELSE "dns"

OfKind(hosts, k) == SelectSeq(hosts, LAMBDA h : HostKind(h) = k)

\* ExtKeyUsage with the usages of an email address in place of the others.
ExtKeyUsage_EmailReplaces(clientCert, hosts) ==
    IF Len(OfKind(hosts, "email")) > 0
    THEN <<"CodeSigning", "EmailProtection">>
    ELSE IF clientCert THEN <<"ClientAuth", "ServerAuth">>
    ELSE IF Len(OfKind(hosts, "ip")) > 0 \/ Len(OfKind(hosts, "dns")) > 0
    THEN <<"ServerAuth">>
    ELSE <<>>

\* tpl.ExtKeyUsage as MakeCert sets it.
ExtKeyUsage(clientCert, hosts) ==
    LET base == IF clientCert THEN <<"ClientAuth", "ServerAuth">>
                ELSE IF Len(OfKind(hosts, "ip")) > 0
                        \/ Len(OfKind(hosts, "dns")) > 0
                     THEN <<"ServerAuth">>
                     ELSE <<>>
    IN  IF Len(OfKind(hosts, "email")) > 0
        THEN base \o <<"CodeSigning", "EmailProtection">>
        ELSE base

\* The template of MakeCert; hosts is not empty when clientCert is set.
LeafTemplate(serial, clientCert, hosts) ==
    [Certificate EXCEPT !.serial = serial,
                        !.subject = LeafSubject,
                        !.cn = IF clientCert THEN hosts[1] ELSE "",
                        !.ips = OfKind(hosts, "ip"),
                        !.emails = OfKind(hosts, "email"),
                        !.uris = OfKind(hosts, "uri"),
                        !.dns = OfKind(hosts, "dns"),
                        !.eku = ExtKeyUsage(clientCert, hosts)]

\* A PEM block written to the io.Writer.
KeyBlock(priv) == [type |-> "PRIVATE KEY", key |-> priv]
CertBlock(der) == [type |-> "CERTIFICATE", der |-> der]

IssueFaults == {"none", "read", "rand", "writeKey", "writeCert"}

\* MakeCert without the Load of an unloaded root: x509.CreateCertificate
\* returns an error for a nil signer.
MakeCertOutcome_NoLoad(e, d, c, n, clientCert, hosts, f) ==
    LET priv == n + 1
        tpl == LeafTemplate(n + 1, clientCert, hosts)
        der == CreateCertificate(tpl, c.cert, Public(priv), c.key)
    IN  IF f = "rand" THEN [res |-> "err", out |-> <<>>, nrand |-> n]
        ELSE IF clientCert /\ Len(hosts) = 0
             THEN [res |-> "panic", out |-> <<>>, nrand |-> n + 1]
        ELSE IF c.cert.isnil \/ c.key = NoKey
             THEN [res |-> "err", out |-> <<>>, nrand |-> n + 1]
        ELSE IF f = "writeKey"
             THEN [res |-> "err", out |-> <<>>, nrand |-> n + 1]
        ELSE IF f = "writeCert"
             THEN [res |-> "err", out |-> <<KeyBlock(priv)>>, nrand |-> n + 1]
        ELSE [res |-> "ok", out |-> <<KeyBlock(priv), CertBlock(der)>>,
              nrand |-> n + 1]

\* CARoot.MakeCert on (a copy of) CARoot c: what it returns, what it wrote to
\* out, and the number of values drawn.  res = "panic": hosts[0] of an empty
\* list.
MakeCertOutcome(e, d, c, n, clientCert, hosts, f) ==
    LET ld == IF c.cert.isnil \/ c.key = NoKey
              THEN LoadOutcome(e, d, c, IF f = "read" THEN "read" ELSE "none")
              ELSE [res |-> "ok", ca |-> c]
        priv == n + 1
        tpl == LeafTemplate(n + 1, clientCert, hosts)
        der == CreateCertificate(tpl, ld.ca.cert, Public(priv), ld.ca.key)
    IN  IF ld.res # "ok" THEN [res |-> "err", out |-> <<>>, nrand |-> n]
        ELSE IF f = "rand" THEN [res |-> "err", out |-> <<>>, nrand |-> n]
        ELSE IF clientCert /\ Len(hosts) = 0
             THEN [res |-> "panic", out |-> <<>>, nrand |-> n + 1]
        ELSE IF f = "writeKey"
             THEN [res |-> "err", out |-> <<>>, nrand |-> n + 1]
        ELSE IF f = "writeCert"
             THEN [res |-> "err", out |-> <<KeyBlock(priv)>>, nrand |-> n + 1]
        ELSE [res |-> "ok", out |-> <<KeyBlock(priv), CertBlock(der)>>,
              nrand |-> n + 1]

\* tls.X509KeyPair(pem, pem): the CERTIFICATE blocks and the first private
\* key block of the same bytes; the key must belong to the leaf.
X509KeyPair(blocks) ==
    LET cs == SelectSeq(blocks, LAMBDA b : b.type = "CERTIFICATE")
        ks == SelectSeq(blocks, LAMBDA b : b.type = "PRIVATE KEY")
    IN  IF Len(cs) > 0 /\ Len(ks) > 0 /\ cs[1].der.pub = Public(ks[1].key)
        THEN [isnil |-> FALSE, der |-> cs[1].der, key |-> ks[1].key]
        ELSE NilTLS

\* Writes to the bytes.Buffer of MakeTLSCert do not fail.
TLSFaults == {"none", "read", "rand"}

\* CARoot.MakeTLSCert.
MakeTLSCertOutcome(e, d, c, n, clientCert, hosts, f) ==
    LET o == MakeCertOutcome(e, d, c, n, clientCert, hosts, f)
        t == X509KeyPair(o.out)
    IN  IF o.res # "ok" THEN [res |-> o.res, cert |-> NilTLS, nrand |-> o.nrand]
        ELSE IF t.isnil THEN [res |-> "err", cert |-> NilTLS, nrand |-> o.nrand]
        ELSE [res |-> "ok", cert |-> t, nrand |-> o.nrand]

\* The closure without certs[hello.ServerName] = c.
GetCertificateOutcome_NoStore(e, d, c, m, n, name, f) ==
    IF ~m[name].isnil
    THEN [res |-> "ok", ret |-> m[name], certs |-> m, nrand |-> n]
    ELSE LET o == MakeTLSCertOutcome(e, d, c, n, FALSE, <<name>>, f)
         IN  IF o.res # "ok"
             THEN [res |-> o.res, ret |-> NilTLS, certs |-> m,
                   nrand |-> o.nrand]
             ELSE [res |-> "ok", ret |-> o.cert, certs |-> m,
                   nrand |-> o.nrand]

\* The GetCertificate closure of TLSConfig: the looked-up or issued
\* certificate, the map afterwards, and the number of values drawn.
GetCertificateOutcome(e, d, c, m, n, name, f) ==
    IF ~m[name].isnil
    THEN [res |-> "ok", ret |-> m[name], certs |-> m, nrand |-> n]
    ELSE LET o == MakeTLSCertOutcome(e, d, c, n, FALSE, <<name>>, f)
         IN  IF o.res # "ok"
             THEN [res |-> o.res, ret |-> NilTLS, certs |-> m,
                   nrand |-> o.nrand]
             ELSE [res |-> "ok", ret |-> o.cert,
                   certs |-> [m EXCEPT ![name] = o.cert], nrand |-> o.nrand]

-----------------------------------------------------------------------------
(* The trust stores.  machine says what the backends detect and what a      *)
(* command can do: priv says whether the user is root and whether sudo and  *)
(* doas are in PATH; a protected store can be written by root and through   *)
(* sudo or doas only.  A trust record is [name, cert]: the serial in the    *)
(* name it was stored under (caName) and the serial of the certificate      *)
(* stored.                                                                  *)

\* An error value; "" is nil.
NoErr == ""

\* caName(caCert): "zcert development CA " + serial; the model keeps the
\* serial.
caName(c) == c.serial

\* The file at rootCert, the first path of StorePath().
RootFile(e, d) == IF e THEN d.cert ELSE NoFile

\* The certificate a tool reads from a PEM file; 0 when the PEM block is
\* truncated.
FileCert(file) == IF file.state = "ok" THEN file.der.serial ELSE 0

\* An *exec.Cmd: the wrapper it runs through ("" for none) and the program
\* with its arguments; warn: making it went through privWarning.Do.
Cmd(via, argv) == [via |-> via, argv |-> argv, warn |-> FALSE]

\* privCmd(cmd...): unwrapped for root, else through sudo, else through
\* doas, else unwrapped after privWarning.Do.
privCmd(m, argv) ==
    IF m.priv.root THEN Cmd("", argv)
    ELSE IF m.priv.sudo THEN Cmd("sudo", argv)
    ELSE IF m.priv.doas THEN Cmd("doas", argv)
    ELSE [Cmd("", argv) EXCEPT !.warn = TRUE]

\* The command runs with the rights of root.
Elevated(m, cmd) == m.priv.root \/ cmd.via # ""

\* var privWarning sync.Once, before any Do, with the number of warnings
\* written to stderr.
NoWarning == [done |-> FALSE, emitted |-> 0]

\* A Do that runs its function whether or not one ran before.
Do_Always(w) == [done |-> TRUE, emitted |-> w.emitted + 1]

\* privWarning.Do(func() { fmt.Fprintf(os.Stderr, ...) }): the function
\* runs in the first Do only.
Do(w) == IF w.done THEN w ELSE [done |-> TRUE, emitted |-> w.emitted + 1]

\* privWarning after the privCmd calls that made cmds, one after the other.
Warned(w, cmds) ==
    IF \E i \in DOMAIN cmds : cmds[i].warn THEN Do(w) ELSE w

\* A profile directory holds an NSS database.
HasDB(p) == p.db \in {"cert9", "cert8"}

\* The -d argument forEachProfile passes for profile i.
DBArg(i, p) == <<IF p.db = "cert9" THEN "sql:" ELSE "dbm:", i>>

\* certutil -V -d profile -u L -n caName: exit status 0 iff certutil runs
\* and the database holds a valid certificate under that name.
CertutilV(m, db, name) ==
    m.certutil /\ \E r \in db : r.name = name /\ r.cert # 0

\* out, err := cmd.CombinedOutput() of a certutil command that writes the
\* database of profile p; applies: the command has what it needs (the -i
\* file, the record to delete).  A database the user may not write makes
\* certutil fail with SEC_ERROR_READ_ONLY in its output (marker).
RunCertutil(m, p, cmd, applies) ==
    [cmd |-> cmd,
     ok |-> m.certutil /\ applies /\ ~(p.ro /\ ~Elevated(m, cmd)),
     marker |-> m.certutil /\ applies /\ p.ro /\ ~Elevated(m, cmd)]

\* The re-execution that runs again after every failure.
ReExec_AnyFailure(os, first, again) ==
    IF ~first.ok /\ os # "windows"
    THEN [ok |-> again.ok, cmds |-> <<first.cmd, again.cmd>>,
          runs |-> <<first, again>>]
    ELSE [ok |-> first.ok, cmds |-> <<first.cmd>>, runs |-> <<first>>]

\* The body execCertutil and execKeytool share: first is the direct run,
\* again what the run through privCmd gives; the command is run again when
\* the direct run failed with the marker in its output, except on Windows,
\* and then out and err are those of the second run.
ReExec(os, first, again) ==
    IF ~first.ok /\ first.marker /\ os # "windows"
    THEN [ok |-> again.ok, cmds |-> <<first.cmd, again.cmd>>,
          runs |-> <<first, again>>]
    ELSE [ok |-> first.ok, cmds |-> <<first.cmd>>, runs |-> <<first>>]

\* NSS.execCertutil.
execCertutil(os, m, p, argv, applies) ==
    ReExec(os, RunCertutil(m, p, Cmd("", argv), applies),
           RunCertutil(m, p, privCmd(m, argv), applies))

\* What forEachProfile gives when its function succeeded for one more
\* database before the rest r of the loop.
Found(x, r) ==
    [err |-> r.err, dbs |-> r.dbs,
     found |-> IF r.err = NoErr THEN r.found + 1 ELSE 0,
     cmds |-> x.cmds \o r.cmds]

\* NSS.forEachProfile with the function of NSS.Install, from profile i on:
\* the error, the databases afterwards, the number of databases found and
\* the commands run.  NSSInstallNext: profile i holds a database and
\* certutil -A for it gave x.
RECURSIVE NSSInstallFrom(_, _, _, _, _, _)
\* A loop that goes on to the next profile after a failure and returns
\* the failure at its end.
NSSInstallNext_KeepsGoing(i, os, m, dbs, file, c, x) ==
    IF ~x.ok
    THEN [Found(x, NSSInstallFrom(i + 1, os, m, dbs, file, c))
              EXCEPT !.err = "certutil -A", !.found = 0]
    ELSE Found(x, NSSInstallFrom(
                      i + 1, os, m,
                      [dbs EXCEPT ![i] = @ \cup {[name |-> caName(c),
                                                  cert |-> FileCert(file)]}],
                      file, c))

NSSInstallNext(i, os, m, dbs, file, c, x) ==
    IF ~x.ok
    THEN [err |-> "certutil -A", dbs |-> dbs, found |-> 0, cmds |-> x.cmds]
    ELSE Found(x, NSSInstallFrom(
                      i + 1, os, m,
                      [dbs EXCEPT ![i] = @ \cup {[name |-> caName(c),
                                                  cert |-> FileCert(file)]}],
                      file, c))

NSSInstallFrom(i, os, m, dbs, file, c) ==
    IF i > Len(m.profiles)
    THEN [err |-> NoErr, dbs |-> dbs, found |-> 0, cmds |-> <<>>]
    ELSE IF ~HasDB(m.profiles[i])
    THEN NSSInstallFrom(i + 1, os, m, dbs, file, c)
    ELSE NSSInstallNext(i, os, m, dbs, file, c,
                        execCertutil(os, m, m.profiles[i],
                                     <<"certutil", "-A">>
                                        \o DBArg(i, m.profiles[i]),
                                     file.state = "ok"))

\* NSS.HasCert: the check succeeds in every database, and there is one.
NSSHasCert(m, dbs, c) ==
    /\ \E i \in 1..Len(m.profiles) : HasDB(m.profiles[i])
    /\ \A i \in 1..Len(m.profiles) :
          HasDB(m.profiles[i]) => CertutilV(m, dbs[i], caName(c))

\* NSS.Install after its forEachProfile gave r.
NSSInstalled(m, c, r) ==
    [err |-> IF r.err # NoErr THEN r.err
             ELSE IF r.found = 0 THEN "no security database found"
             ELSE IF ~NSSHasCert(m, r.dbs, c) THEN "installing failed"
             ELSE NoErr,
     store |-> r.dbs, cmds |-> r.cmds]

\* NSS.Install.
NSSInstall(os, m, dbs, file, c) ==
    NSSInstalled(m, c, NSSInstallFrom(1, os, m, dbs, file, c))

\* NSS.forEachProfile with the function of NSS.Uninstall, from profile i on.
\* NSSUninstallNext: the database of profile i holds the certificate and
\* certutil -D for it gave x.
RECURSIVE NSSUninstallFrom(_, _, _, _, _)
NSSUninstallNext(i, os, m, dbs, c, x) ==
    IF ~x.ok THEN [err |-> "certutil -D", store |-> dbs, cmds |-> x.cmds]
    ELSE [NSSUninstallFrom(
              i + 1, os, m,
              [dbs EXCEPT ![i] = {r \in @ : r.name # caName(c)}], c)
          EXCEPT !.cmds = x.cmds \o @]

NSSUninstallFrom(i, os, m, dbs, c) ==
    IF i > Len(m.profiles) THEN [err |-> NoErr, store |-> dbs, cmds |-> <<>>]
    ELSE IF ~HasDB(m.profiles[i]) \/ ~CertutilV(m, dbs[i], caName(c))
    THEN NSSUninstallFrom(i + 1, os, m, dbs, c)
    ELSE NSSUninstallNext(i, os, m, dbs, c,
                          execCertutil(os, m, m.profiles[i],
                                       <<"certutil", "-D">>
                                          \o DBArg(i, m.profiles[i]),
                                       TRUE))

\* NSS.Uninstall.
NSSUninstall(os, m, dbs, c) == NSSUninstallFrom(1, os, m, dbs, c)

\* out, err := cmd.CombinedOutput() of a keytool command that writes the
\* keystore; nofile: the -file argument cannot be opened; applies: keytool
\* accepts the command (a readable certificate, an alias that is free or
\* present as needed).  keytool reports a file it cannot open or write with
\* java.io.FileNotFoundException in its output (marker).
RunKeytool(m, cmd, nofile, applies) ==
    [cmd |-> cmd,
     ok |-> ~nofile /\ applies /\ ~(m.java = "ro" /\ ~Elevated(m, cmd)),
     marker |-> nofile \/ (applies /\ m.java = "ro" /\ ~Elevated(m, cmd))]

\* Java.execKeytool.
execKeytool(os, m, argv, nofile, applies) ==
    ReExec(os, RunKeytool(m, Cmd("", argv), nofile, applies),
           RunKeytool(m, privCmd(m, argv), nofile, applies))

\* The fingerprint of caCert.Raw that Java.HasCert looks for; a certificate
\* without Raw gives the fingerprint of no bytes, which no record has.
Fingerprint(c) == IF c.raw THEN c.serial ELSE 0

\* Java.HasCert.
JavaHasCert(m, ks, c) ==
    m.java # "none" /\ \E r \in ks : r.cert # 0 /\ r.cert = Fingerprint(c)

\* Java.Install: keytool -importcert refuses an alias that is in use.
JavaInstall(os, m, ks, file, c) ==
    LET x == execKeytool(os, m, <<"keytool", "-importcert">>,
                         file.state = "none",
                         file.state = "ok"
                            /\ \A r \in ks : r.name # caName(c))
        rec == [name |-> caName(c), cert |-> FileCert(file)]
    IN  IF x.ok THEN [err |-> NoErr, store |-> ks \cup {rec}, cmds |-> x.cmds]
        ELSE [err |-> "truststore.Java", store |-> ks, cmds |-> x.cmds]

\* Java.Uninstall: the output of keytool -delete for an alias that is not in
\* the keystore holds "does not exist".
JavaUninstall(os, m, ks, c) ==
    LET present == \E r \in ks : r.name = caName(c)
        x == execKeytool(os, m, <<"keytool", "-delete">>, FALSE, present)
        gone == {r \in ks : r.name # caName(c)}
    IN  IF ~present THEN [err |-> NoErr, store |-> ks, cmds |-> x.cmds]
        ELSE IF x.ok THEN [err |-> NoErr, store |-> gone, cmds |-> x.cmds]
        ELSE [err |-> "truststore.Java", store |-> ks, cmds |-> x.cmds]

\* Unix.HasCert.
UnixHasCert(m, anchors, c) == FALSE

\* Unix.Install: tee writes the bytes of rootCert to the anchor file, then
\* the update command runs; both through privCmd, and both need root.
UnixInstall(os, m, anchors, file, c) ==
    LET tee == privCmd(m, <<"tee", caName(c)>>)
        upd == privCmd(m, <<"update">>)
        rec == [name |-> caName(c), cert |-> FileCert(file)]
        put == {r \in anchors : r.name # caName(c)} \cup {rec}
    IN  IF ~m.trust
        THEN [err |-> "not yet supported on this Unix", store |-> anchors,
              cmds |-> <<>>]
        ELSE IF file.state = "none"
             THEN [err |-> "read root certificate", store |-> anchors,
                   cmds |-> <<>>]
        ELSE IF ~Elevated(m, tee)
             THEN [err |-> "truststore.Unix", store |-> anchors,
                   cmds |-> <<tee>>]
        ELSE IF ~Elevated(m, upd)
             THEN [err |-> "truststore.Unix", store |-> put,
                   cmds |-> <<tee, upd>>]
        ELSE [err |-> NoErr, store |-> put, cmds |-> <<tee, upd>>]

\* Unix.Uninstall: rm -f of a file that does not exist succeeds for every
\* user, the removal of one that exists and the update command need root.
UnixUninstall(os, m, anchors, c) ==
    LET rm == privCmd(m, <<"rm", "-f", caName(c)>>)
        upd == privCmd(m, <<"update">>)
        present == \E r \in anchors : r.name = caName(c)
        gone == {r \in anchors : r.name # caName(c)}
    IN  IF ~m.trust THEN [err |-> NoErr, store |-> anchors, cmds |-> <<>>]
        ELSE IF present /\ ~Elevated(m, rm)
             THEN [err |-> "truststore.Unix", store |-> anchors,
                   cmds |-> <<rm>>]
        ELSE IF ~Elevated(m, upd)
             THEN [err |-> "truststore.Unix", store |-> gone,
                   cmds |-> <<rm, upd>>]
        ELSE [err |-> NoErr, store |-> gone, cmds |-> <<rm, upd>>]

\* Darwin.HasCert.
DarwinHasCert(m, st, c) == FALSE

\* The ways Darwin.Install ends the process instead of returning.
PanicErr == "panic: interface conversion"
FatalErr == "log.Fatalln: unsupported trust settings version"
Crash(err) == err \in {PanicErr, FatalErr}

\* Darwin.Install: security add-trusted-cert puts the certificate of
\* rootCert in the System keychain; then the exported trust settings are
\* parsed (m.plist: "v1" for trustVersion 1, "v2" for another version, "bad"
\* when the export does not parse), the entry pick, one of those issued by
\* the subject of caCert, gets the explicit settings, and the list is
\* imported.
DarwinInstall(os, m, st, file, c, pick) ==
    LET add == privCmd(m, <<"security", "add-trusted-cert">>)
        exp == privCmd(m, <<"security", "trust-settings-export">>)
        imp == privCmd(m, <<"security", "trust-settings-import">>)
        st1 == [st EXCEPT !.keychain = @ \cup {FileCert(file)}]
        st2 == [st1 EXCEPT !.settings = @ \cup {pick}]
    IN  IF ~Elevated(m, add) \/ file.state # "ok"
        THEN [err |-> "security add-trusted-cert", store |-> st,
              cmds |-> <<add>>]
        ELSE IF m.plist = "bad"
             THEN [err |-> PanicErr, store |-> st1, cmds |-> <<add, exp>>]
        ELSE IF m.plist = "v2"
             THEN [err |-> FatalErr, store |-> st1, cmds |-> <<add, exp>>]
        ELSE [err |-> NoErr, store |-> st2, cmds |-> <<add, exp, imp>>]

\* Darwin.Uninstall.
DarwinUninstall(os, m, st, c) == [err |-> NoErr, store |-> st, cmds |-> <<>>]

\* Windows.HasCert.
WindowsHasCert(m, st, c) == FALSE

\* windowsRootStore.addCert with CERT_STORE_ADD_REPLACE_EXISTING.
addCert(st, cert) ==
    IF \E i \in 1..Len(st) : st[i].cert = cert THEN st
    ELSE Append(st, [cert |-> cert])

\* Windows.Install.
WindowsInstall(os, m, st, file, c) ==
    IF file.state = "none"
    THEN [err |-> "truststore.Windows: read", store |-> st, cmds |-> <<>>]
    ELSE IF file.state # "ok"
    THEN [err |-> "truststore.Windows: invalid PEM data", store |-> st,
          cmds |-> <<>>]
    ELSE [err |-> NoErr, store |-> addCert(st, FileCert(file)),
          cmds |-> <<>>]

\* windowsRootStore.deleteCertsWithSerial: an entry that does not parse
\* (cert = 0) is passed over.
deleteCertsWithSerial(st, serial) ==
    [store |-> SelectSeq(st, LAMBDA r : ~(r.cert # 0 /\ r.cert = serial)),
     deletedAny |-> \E i \in 1..Len(st) :
                        st[i].cert # 0 /\ st[i].cert = serial]

\* Windows.Uninstall: err is set when nothing was deleted, and nil is
\* returned.
WindowsUninstall(os, m, st, c) ==
    [err |-> NoErr, store |-> deleteCertsWithSerial(st, c.serial).store,
     cmds |-> <<>>]

\* The stores of truststore.Find, in its order.
Backends == <<"NSS", "Java", "Unix", "Darwin", "Windows">>

\* OnSystem of each backend; Unix, Darwin and Windows are stubs in the
\* builds for other systems.
OnSystem(b, os, m) ==
    IF b = "NSS" THEN m.nss
    ELSE IF b = "Java" THEN m.java # "none"
    ELSE IF b = "Unix" THEN os = "linux"
    ELSE IF b = "Darwin" THEN os = "darwin"
    ELSE os = "windows"

\* truststore.Find.
Find(os, m) == SelectSeq(Backends, LAMBDA b : OnSystem(b, os, m))

\* s.HasCert(caCert) of backend b.
HasCert(b, os, m, st, c) ==
    IF b = "NSS" THEN NSSHasCert(m, st.nss, c)
    ELSE IF b = "Java" THEN JavaHasCert(m, st.java, c)
    ELSE IF b = "Unix" THEN UnixHasCert(m, st.unix, c)
    ELSE IF b = "Darwin" THEN DarwinHasCert(m, st.darwin, c)
    ELSE WindowsHasCert(m, st.windows, c)

\* The store of backend b among all stores.
StoreOf(b, st) ==
    IF b = "NSS" THEN st.nss
    ELSE IF b = "Java" THEN st.java
    ELSE IF b = "Unix" THEN st.unix
    ELSE IF b = "Darwin" THEN st.darwin
    ELSE st.windows

\* The trust records for root c in the store of backend b: the records under
\* the name of c in each NSS database, in the Java keystore and among the
\* Unix anchors; the certificate of c in the macOS keychain; the entries
\* with the serial of c in the Windows ROOT store.
Records(b, st, c) ==
    IF b = "NSS"
    THEN UNION {{<<i, r>> : r \in {x \in st.nss[i] : x.name = caName(c)}} :
                   i \in DOMAIN st.nss}
    ELSE IF b = "Java" THEN {r \in st.java : r.name = caName(c)}
    ELSE IF b = "Unix" THEN {r \in st.unix : r.name = caName(c)}
    ELSE IF b = "Darwin" THEN st.darwin.keychain \cap {c.serial}
    ELSE {i \in DOMAIN st.windows : st.windows[i].cert = c.serial}

\* What the call of a backend gave, with all stores afterwards; field is
\* the store of the backend.
InStores(st, field, r) ==
    [err |-> r.err, cmds |-> r.cmds, stores |-> [st EXCEPT ![field] = r.store]]

\* s.Install(rootCert, caCert) of backend b: its error, all stores
\* afterwards and the commands it ran.
StoreInstall(b, os, m, st, file, c, pick) ==
    IF b = "NSS"
    THEN InStores(st, "nss", NSSInstall(os, m, st.nss, file, c))
    ELSE IF b = "Java"
    THEN InStores(st, "java", JavaInstall(os, m, st.java, file, c))
    ELSE IF b = "Unix"
    THEN InStores(st, "unix", UnixInstall(os, m, st.unix, file, c))
    ELSE IF b = "Darwin"
    THEN InStores(st, "darwin",
                  DarwinInstall(os, m, st.darwin, file, c, pick))
    ELSE InStores(st, "windows", WindowsInstall(os, m, st.windows, file, c))

\* s.Uninstall(rootCert, caCert) of backend b.
StoreUninstall(b, os, m, st, c) ==
    IF b = "NSS" THEN InStores(st, "nss", NSSUninstall(os, m, st.nss, c))
    ELSE IF b = "Java"
    THEN InStores(st, "java", JavaUninstall(os, m, st.java, c))
    ELSE IF b = "Unix"
    THEN InStores(st, "unix", UnixUninstall(os, m, st.unix, c))
    ELSE IF b = "Darwin"
    THEN InStores(st, "darwin", DarwinUninstall(os, m, st.darwin, c))
    ELSE InStores(st, "windows", WindowsUninstall(os, m, st.windows, c))

\* What a call of Install or Uninstall did: whether it got to the loop over
\* the stores (loaded), the backends the loop called, what each call gave
\* (rets), the errors appended to the Group, the commands run, and how the
\* process ended if it did.
NoRun == [loaded |-> FALSE, calls |-> <<>>, rets |-> <<>>, errs |-> <<>>,
          cmds |-> <<>>, crash |-> NoErr, runs |-> <<>>]

\* The loop with the call r of backend b in front of the calls rest.
Appended(b, r, rest) ==
    [stores |-> rest.stores, calls |-> <<b>> \o rest.calls,
     rets |-> <<[store |-> b, err |-> r.err]>> \o rest.rets,
     errs |-> (IF r.err = NoErr THEN <<>>
               ELSE <<[store |-> b, err |-> r.err]>>) \o rest.errs,
     cmds |-> r.cmds \o rest.cmds, crash |-> rest.crash]

\* The loop ended by the call r of backend b, which ended the process.
Crashed(b, r) ==
    [stores |-> r.stores, calls |-> <<b>>,
     rets |-> <<[store |-> b, err |-> r.err]>>, errs |-> <<>>,
     cmds |-> r.cmds, crash |-> r.err]

\* The loop over no store.
Looped(st) ==
    [stores |-> st, calls |-> <<>>, rets |-> <<>>, errs |-> <<>>,
     cmds |-> <<>>, crash |-> NoErr]

\* for _, s := range stores { errs.Append(s.Install(rootCert, ca.cert)) }
\* InstallNext: the loop from the first of bs on, whose call gave r.
RECURSIVE InstallAll(_, _, _, _, _, _, _)
InstallNext(bs, os, m, file, c, pick, r) ==
    IF Crash(r.err) THEN Crashed(Head(bs), r)
    ELSE Appended(Head(bs), r,
                  InstallAll(Tail(bs), os, m, r.stores, file, c, pick))

InstallAll(bs, os, m, st, file, c, pick) ==
    IF bs = <<>> THEN Looped(st)
    ELSE InstallNext(bs, os, m, file, c, pick,
                     StoreInstall(Head(bs), os, m, st, file, c, pick))

\* for _, s := range stores { errs.Append(s.Uninstall(rootCert, ca.cert)) }
RECURSIVE UninstallAll(_, _, _, _, _)
UninstallNext(bs, os, m, c, r) ==
    Appended(Head(bs), r, UninstallAll(Tail(bs), os, m, r.stores, c))

UninstallAll(bs, os, m, st, c) ==
    IF bs = <<>> THEN Looped(st)
    ELSE UninstallNext(bs, os, m, c, StoreUninstall(Head(bs), os, m, st, c))

\* What a call returns after such a loop: errs.ErrorOrNil(), unless the
\* process ended.
GroupResult(r) ==
    IF r.crash = PanicErr THEN "panic"
    ELSE IF r.crash = FatalErr THEN "fatal"
    ELSE IF r.errs = <<>> THEN "ok" ELSE "err"

\* if ca.cert == nil { err := ca.Load() ... } on a copy of CARoot c.
Loaded(e, d, c, f) ==
    IF c.cert.isnil THEN LoadOutcome(e, d, c, f) ELSE [res |-> "ok", ca |-> c]

\* What Install and Uninstall of CARoot give after the loop r.
Returned(r) ==
    [res |-> GroupResult(r), stores |-> r.stores,
     run |-> [loaded |-> TRUE, calls |-> r.calls, rets |-> r.rets,
              errs |-> r.errs, cmds |-> r.cmds, crash |-> r.crash,
              runs |-> <<>>]]

\* CARoot.Install on (a copy of) CARoot c: the Load of an unloaded root stays
\* in the copy.
InstallOutcome(e, d, c, os, m, st, f, pick) ==
    IF Loaded(e, d, c, f).res # "ok"
    THEN [res |-> "err", stores |-> st, run |-> NoRun]
    ELSE IF Find(os, m) = <<>>
    THEN [res |-> "err", stores |-> st,
          run |-> [NoRun EXCEPT !.loaded = TRUE]]
    ELSE Returned(InstallAll(Find(os, m), os, m, st, RootFile(e, d),
                             Loaded(e, d, c, f).ca.cert, pick))

\* CARoot.Uninstall on (a copy of) CARoot c.
UninstallOutcome(e, d, c, os, m, st, f) ==
    IF Loaded(e, d, c, f).res # "ok"
    THEN [res |-> "err", stores |-> st, run |-> NoRun]
    ELSE IF Find(os, m) = <<>>
    THEN [res |-> "err", stores |-> st,
          run |-> [NoRun EXCEPT !.loaded = TRUE]]
    ELSE Returned(UninstallAll(Find(os, m), os, m, st,
                               Loaded(e, d, c, f).ca.cert))

\* The machines of the model.  Profiles: the directories forEachProfile
\* visits, each with what it holds (db: "nodir" for no directory, "nodb" for
\* a directory without database) and whether its database is protected
\* against the user (ro).
ProfileLists ==
    {<<>>,
     <<[db |-> "nodir", ro |-> FALSE], [db |-> "nodb", ro |-> FALSE]>>,
     <<[db |-> "cert9", ro |-> FALSE]>>,
     <<[db |-> "nodb", ro |-> FALSE], [db |-> "cert8", ro |-> TRUE]>>,
     <<[db |-> "cert9", ro |-> TRUE], [db |-> "nodir", ro |-> FALSE],
       [db |-> "cert9", ro |-> FALSE]>>}

\* Who runs the process and which helpers are in PATH.
AllPrivs == [root : BOOLEAN, sudo : BOOLEAN, doas : BOOLEAN]

\* Root, a user with sudo only, with doas only, and with neither.
Privs == {p \in AllPrivs : ~(p.root /\ p.sudo) /\ ~(p.root /\ p.doas)
                               /\ ~(p.sudo /\ p.doas)}

\* A machine without any trust store.
NoMachine == [priv |-> [root |-> FALSE, sudo |-> FALSE, doas |-> FALSE],
              nss |-> FALSE, certutil |-> FALSE, profiles |-> <<>>,
              java |-> "none", trust |-> FALSE, plist |-> "v1"]

\* nss: NSS.OnSystem (a database directory or a Firefox is there);
\* certutil: the certutil program can be run; java: "none" without keytool,
\* else whether the user may write the keystore ("rw") or not ("ro");
\* trust: trustCmd is set (Unix builds only); plist: what the trust settings
\* export holds (macOS only).
Machines(os) ==
    {m \in [priv : Privs, nss : BOOLEAN, certutil : BOOLEAN,
            profiles : ProfileLists, java : {"none", "rw", "ro"},
            trust : BOOLEAN, plist : {"v1", "v2", "bad"}] :
        /\ m.trust => os = "linux"
        /\ m.plist # "v1" => os = "darwin"
        /\ ~m.nss => (~m.certutil /\ m.profiles = <<>>)}

\* Trust stores without any record of a zcert root; the Windows ROOT store
\* holds an entry that does not parse.
NoStores == [nss |-> <<>>, java |-> {}, unix |-> {},
             darwin |-> [keychain |-> {}, settings |-> {}],
             windows |-> <<>>]
EmptyStores(m) ==
    [NoStores EXCEPT !.nss = [i \in 1..Len(m.profiles) |-> {}],
                     !.windows = <<[cert |-> 0]>>]

-----------------------------------------------------------------------------
(* The calls of a single-threaded caller *)

\* The identifier lists and server names the model calls with.
HostLists == {<<>>, <<"example.com">>, <<"user@example.com", "10.0.0.1">>}

\* No MakeCert asked for.
NoReq == [client |-> FALSE, hosts |-> <<>>]

\* The requests of at most MaxHosts identifiers.
Requests ==
    [client : BOOLEAN,
     hosts : UNION {[1..n -> Identifiers] : n \in 0..MaxHosts}]
ServerNames == {"a.test", "b.test"}
Conns == {"c1", "c2"}

NoConfig == [made |-> FALSE, ca |-> ZeroCA]
NoCerts == [h \in ServerNames |-> NilTLS]

\* The record of a call made in the current state.
Call(op, res) ==
    [NoCall EXCEPT !.op = op, !.res = res,
                   !.certOnDisk = env /\ disk.cert.state # "none",
                   !.serial = IF disk.cert.state = "ok"
                              THEN disk.cert.der.serial ELSE 0,
                   !.prev = [op |-> last.op, res |-> last.res,
                             certOnDisk |-> last.certOnDisk,
                             serial |-> last.serial]]

\* The goroutines that call privCmd, and one that is in no call.
Goroutines == {"g1", "g2"}
Idle == [pc |-> "idle", argv |-> <<>>, cmd |-> Cmd("", <<>>)]

\* Nothing on disk, nothing in memory, no call made.
Start ==
    /\ disk = EmptyDisk
    /\ ca = ZeroCA
    /\ nrand = 0
    /\ out = <<>>
    /\ last = NoCall
    /\ tlsca = NoConfig
    /\ certs = NoCerts
    /\ pc = [p \in Conns |-> "idle"]
    /\ arg = [p \in Conns |-> "a.test"]
    /\ loc = [p \in Conns |-> NilTLS]
    /\ paths = NoPaths
    /\ run = NoRun
    /\ privWarning = NoWarning
    /\ gos = [g \in Goroutines |-> Idle]

\* The tests set CAROOT to an empty directory; without it (and without HOME)
\* there is no storage location.
Init ==
    /\ Start
    /\ goos = "linux"
    /\ environ \in {NoEnviron, [NoEnviron EXCEPT !.CAROOT = "/tmp/zcert"]}
    /\ env = (StorePath(goos, environ) # NoPaths)
    /\ machine = NoMachine
    /\ stores = NoStores
    /\ req = NoReq

\* var root CARoot
Zero ==
    /\ ca' = ZeroCA
    /\ last' = Call("Zero", "ok")
    /\ out' = <<>>
    /\ UNCHANGED <<env, disk, nrand, tlsca, certs, pc, arg, loc>>
    /\ UNCHANGED xvars

\* err := ca.Create()
Create(f) ==
    LET o == CreateOutcome(env, disk, ca, nrand, f)
    IN  /\ o.nrand <= MaxRand
        /\ disk' = o.disk
        /\ ca' = o.ca
        /\ nrand' = o.nrand
        /\ last' = Call("Create", o.res)
        /\ out' = <<>>
        /\ UNCHANGED <<env, tlsca, certs, pc, arg, loc>>
        /\ UNCHANGED xvars

\* err := ca.Load()
Load(f) ==
    LET o == LoadOutcome(env, disk, ca, f)
    IN  /\ ca' = o.ca
        /\ last' = Call("Load", o.res)
        /\ out' = <<>>
        /\ UNCHANGED <<env, disk, nrand, tlsca, certs, pc, arg, loc>>
        /\ UNCHANGED xvars

\* err := ca.Delete()
Delete(f) ==
    LET o == DeleteOutcome(env, disk, f)
    IN  /\ disk' = o.disk
        /\ last' = Call("Delete", o.res)
        /\ out' = <<>>
        /\ UNCHANGED <<env, ca, nrand, tlsca, certs, pc, arg, loc>>
        /\ UNCHANGED xvars

\* ca, created, err := New()
New(f) ==
    LET o == NewOutcome(env, disk, nrand, f)
    IN  /\ o.nrand <= MaxRand
        /\ disk' = o.disk
        /\ ca' = o.ca
        /\ nrand' = o.nrand
        /\ last' = [Call("New", o.res) EXCEPT !.created = o.created]
        /\ out' = <<>>
        /\ UNCHANGED <<env, tlsca, certs, pc, arg, loc>>
        /\ UNCHANGED xvars

\* MakeCert with a pointer receiver: the Load of an unloaded root stays in
\* the CARoot of the caller.
MakeCert_PointerReceiver(clientCert, hosts, f) ==
    LET o == MakeCertOutcome(env, disk, ca, nrand, clientCert, hosts, f)
    IN  /\ o.nrand <= MaxRand
        /\ out' = o.out
        /\ nrand' = o.nrand
        /\ last' = [Call("MakeCert", o.res) EXCEPT
                       !.client = clientCert, !.hosts = hosts]
        /\ ca' = IF ca.cert.isnil \/ ca.key = NoKey
                 THEN LoadOutcome(env, disk, ca,
                                  IF f = "read" THEN "read" ELSE "none").ca
                 ELSE ca
        /\ UNCHANGED <<env, disk, tlsca, certs, pc, arg, loc>>
        /\ UNCHANGED xvars

\* err := ca.MakeCert(out, clientCert, hosts...) with an empty out
MakeCert(clientCert, hosts, f) ==
    LET o == MakeCertOutcome(env, disk, ca, nrand, clientCert, hosts, f)
    IN  /\ o.nrand <= MaxRand
        /\ out' = o.out
        /\ nrand' = o.nrand
        /\ last' = [Call("MakeCert", o.res) EXCEPT
                       !.client = clientCert, !.hosts = hosts]
        /\ UNCHANGED <<env, disk, ca, tlsca, certs, pc, arg, loc>>
        /\ UNCHANGED xvars

\* The entries of the exported trust list that name the subject of the root
\* as issuer: the zcert roots of the keychain, the one being added included.
Picks == stores.darwin.keychain \cup {FileCert(RootFile(env, disk))}

\* err := ca.Install()
Install(f) ==
    \E pick \in Picks :
        /\ stores' = InstallOutcome(env, disk, ca, goos, machine, stores,
                                    f, pick).stores
        /\ run' = InstallOutcome(env, disk, ca, goos, machine, stores,
                                 f, pick).run
        /\ last' = Call("Install",
                        InstallOutcome(env, disk, ca, goos, machine, stores,
                                       f, pick).res)
        /\ privWarning' =
               Warned(privWarning,
                      InstallOutcome(env, disk, ca, goos, machine, stores,
                                     f, pick).run.cmds)
        /\ out' = <<>>
        /\ UNCHANGED <<env, disk, ca, nrand, tlsca, certs, pc, arg, loc>>
        /\ UNCHANGED <<goos, environ, paths, machine, req, gos>>

\* err := ca.Uninstall()
Uninstall(f) ==
    LET o == UninstallOutcome(env, disk, ca, goos, machine, stores, f)
    IN  /\ stores' = o.stores
        /\ run' = o.run
        /\ last' = Call("Uninstall", o.res)
        /\ privWarning' = Warned(privWarning, o.run.cmds)
        /\ out' = <<>>
        /\ UNCHANGED <<env, disk, ca, nrand, tlsca, certs, pc, arg, loc>>
        /\ UNCHANGED <<goos, environ, paths, machine, req, gos>>

Next ==
    \/ Zero
    \/ \E f \in CreateFaults : Create(f)
    \/ \E f \in LoadFaults : Load(f)
    \/ \E f \in DeleteFaults : Delete(f)
    \/ \E f \in CreateFaults \cup LoadFaults : New(f)
    \/ \E c \in BOOLEAN, h \in HostLists, f \in IssueFaults : MakeCert(c, h, f)

Spec == Init /\ [][Next]_vars

-----------------------------------------------------------------------------
(* TLSConfig and its GetCertificate callback, called one at a time *)

\* tlsc := ca.TLSConfig(): the closure captures a copy of ca and a new map.
TLSConfig ==
    /\ tlsca' = [made |-> TRUE, ca |-> ca]
    /\ certs' = NoCerts
    /\ last' = Call("TLSConfig", "ok")
    /\ out' = <<>>
    /\ UNCHANGED <<env, disk, ca, nrand, pc, arg, loc>>
    /\ UNCHANGED xvars

\* cert, err := tlsc.GetCertificate(hello) with hello.ServerName = name
GetCertificate(name, f) ==
    LET o == GetCertificateOutcome(env, disk, tlsca.ca, certs, nrand, name, f)
    IN  /\ tlsca.made
        /\ o.nrand <= MaxRand
        /\ certs' = o.certs
        /\ nrand' = o.nrand
        /\ last' = [Call("GetCertificate", o.res) EXCEPT
                       !.hosts = <<name>>, !.ret = o.ret]
        /\ out' = <<>>
        /\ UNCHANGED <<env, disk, ca, tlsca, pc, arg, loc>>
        /\ UNCHANGED xvars

NextTLS ==
    \/ \E f \in CreateFaults \cup LoadFaults : New(f)
    \/ \E f \in DeleteFaults : Delete(f)
    \/ TLSConfig
    \/ \E name \in ServerNames, f \in TLSFaults : GetCertificate(name, f)

SpecTLS == Init /\ [][NextTLS]_vars

-----------------------------------------------------------------------------
(* Install and Uninstall on the machines of the model *)

\* A machine with CAROOT set and nothing installed.
InitTrust ==
    /\ Start
    /\ goos \in OSes
    /\ environ = [NoEnviron EXCEPT !.CAROOT = "/tmp/zcert"]
    /\ env = (StorePath(goos, environ) # NoPaths)
    /\ machine \in Machines(goos)
    /\ stores = EmptyStores(machine)
    /\ req = NoReq

NextTrust ==
    \/ \E f \in {"none", "read"} : New(f)
    \/ Zero
    \/ \E f \in LoadFaults : Install(f)
    \/ \E f \in LoadFaults : Uninstall(f)

SpecTrust == InitTrust /\ [][NextTrust]_vars

-----------------------------------------------------------------------------
(* The commands of the NSS and Java backends, one call at a time: run holds *)
(* the runs the call made (runs) and last.res whether the err it returned   *)
(* is nil.  What a successful command does to a store is in NSSInstallNext, *)
(* NSSUninstallNext, JavaInstall and JavaUninstall.                         *)

\* The arguments of the commands the backends pass.
CertutilArgs == {<<"certutil", "-A">>, <<"certutil", "-D">>}
KeytoolArgs == {<<"keytool", "-importcert">>, <<"keytool", "-delete">>}

\* The protection of the database a certutil command is pointed at.
Databases == {[db |-> "cert9", ro |-> FALSE], [db |-> "cert9", ro |-> TRUE]}

\* What a call that gave x leaves behind.
Executed(op, x) ==
    /\ run' = [NoRun EXCEPT !.cmds = x.cmds, !.runs = x.runs]
    /\ last' = Call(op, IF x.ok THEN "ok" ELSE "err")
    /\ privWarning' = Warned(privWarning, x.cmds)

\* out, err := NSS{}.execCertutil(cmd)
ExecCertutil(argv, p, applies) ==
    /\ Executed("execCertutil",
                execCertutil(goos, machine, p, argv, applies))
    /\ out' = <<>>
    /\ UNCHANGED <<env, disk, ca, nrand, tlsca, certs, pc, arg, loc>>
    /\ UNCHANGED <<goos, environ, paths, machine, stores, req, gos>>

\* out, err := Java{}.execKeytool(cmd)
ExecKeytool(argv, nofile, applies) ==
    /\ Executed("execKeytool",
                execKeytool(goos, machine, argv, nofile, applies))
    /\ out' = <<>>
    /\ UNCHANGED <<env, disk, ca, nrand, tlsca, certs, pc, arg, loc>>
    /\ UNCHANGED <<goos, environ, paths, machine, stores, req, gos>>

InitExec ==
    /\ Start
    /\ goos \in OSes
    /\ environ = NoEnviron
    /\ env = FALSE
    /\ machine \in {m \in Machines(goos) : m.profiles = <<>>}
    /\ stores = EmptyStores(machine)
    /\ req = NoReq

NextExec ==
    \/ \E argv \in CertutilArgs, p \in Databases, applies \in BOOLEAN :
           ExecCertutil(argv, p, applies)
    \/ \E argv \in KeytoolArgs, nofile \in BOOLEAN, applies \in BOOLEAN :
           ExecKeytool(argv, nofile, applies)

SpecExec == InitExec /\ [][NextExec]_vars

-----------------------------------------------------------------------------
(* Calls of privCmd from several goroutines of one process.  A call that    *)
(* finds root, sudo or doas returns in one step; one that finds none of     *)
(* them stops before privWarning.Do, where the goroutines interleave.       *)

\* cmd := privCmd(argv...), up to its return or to privWarning.Do.
PrivCmd(g, argv) ==
    /\ gos[g].pc = "idle"
    /\ gos' = [gos EXCEPT ![g] =
                  IF privCmd(machine, argv).warn
                  THEN [pc |-> "Do", argv |-> argv, cmd |-> Idle.cmd]
                  ELSE [pc |-> "idle", argv |-> argv,
                        cmd |-> privCmd(machine, argv)]]
    /\ UNCHANGED <<env, disk, ca, nrand, out, last, tlsca, certs, pc, arg, loc>>
    /\ UNCHANGED <<goos, environ, paths, machine, stores, run, req,
                   privWarning>>

\* privWarning.Do(...) and the return of the unwrapped command.
PrivWarningDo(g) ==
    /\ gos[g].pc = "Do"
    /\ privWarning' = Do(privWarning)
    /\ gos' = [gos EXCEPT ![g] = [pc |-> "idle", argv |-> gos[g].argv,
                                  cmd |-> privCmd(machine, gos[g].argv)]]
    /\ UNCHANGED <<env, disk, ca, nrand, out, last, tlsca, certs, pc, arg, loc>>
    /\ UNCHANGED <<goos, environ, paths, machine, stores, run, req>>

InitPriv ==
    /\ Start
    /\ goos = "linux"
    /\ environ = NoEnviron
    /\ env = FALSE
    /\ machine \in {[NoMachine EXCEPT !.priv = p] : p \in AllPrivs}
    /\ stores = NoStores
    /\ req = NoReq

NextPriv ==
    \/ \E g \in Goroutines, argv \in CertutilArgs \cup KeytoolArgs :
           PrivCmd(g, argv)
    \/ \E g \in Goroutines : PrivWarningDo(g)

SpecPriv == InitPriv /\ [][NextPriv]_vars

-----------------------------------------------------------------------------
(* Every way of issuing: MakeCert, MakeTLSCert and the callback of TLSConfig *)

\* cert, err := ca.MakeTLSCert(clientCert, hosts...)
MakeTLSCert(clientCert, hosts, f) ==
    LET o == MakeTLSCertOutcome(env, disk, ca, nrand, clientCert, hosts, f)
    IN  /\ o.nrand <= MaxRand
        /\ nrand' = o.nrand
        /\ last' = [Call("MakeTLSCert", o.res) EXCEPT
                       !.client = clientCert, !.hosts = hosts,
                       !.ret = o.cert]
        /\ out' = <<>>
        /\ UNCHANGED <<env, disk, ca, tlsca, certs, pc, arg, loc>>
        /\ UNCHANGED xvars

NextCalls ==
    \/ \E f \in {"none", "keyWrite", "read"} : New(f)
    \/ Zero
    \/ \E c \in BOOLEAN, h \in HostLists, f \in IssueFaults : MakeCert(c, h, f)
    \/ \E c \in BOOLEAN, h \in {<<>>, <<"a.test">>}, f \in TLSFaults :
          MakeTLSCert(c, h, f)
    \/ TLSConfig
    \/ \E name \in ServerNames, f \in TLSFaults : GetCertificate(name, f)

SpecCalls == Init /\ [][NextCalls]_vars

-----------------------------------------------------------------------------
(* Resolving the storage location in a changing environment *)

\* The values the model gives to the environment variables.
EnvValues ==
    [CAROOT |-> {"", "/srv/ca"},
     LocalAppData |-> {"", "C:/Users/u/AppData/Local"},
     XDG_DATA_HOME |-> {"", "/home/u/.data"},
     HOME |-> {"", "/home/u"}]

InitPath ==
    /\ Start
    /\ goos \in OSes
    /\ environ = NoEnviron
    /\ env = (StorePath(goos, environ) # NoPaths)
    /\ machine = NoMachine
    /\ stores = NoStores
    /\ req = NoReq

\* os.Setenv(k, v)
Setenv(k, v) ==
    /\ environ' = [environ EXCEPT ![k] = v]
    /\ env' = (StorePath(goos, environ') # NoPaths)
    /\ last' = Call("Setenv", "ok")
    /\ out' = <<>>
    /\ UNCHANGED <<disk, ca, nrand, tlsca, certs, pc, arg, loc>>
    /\ UNCHANGED <<goos, paths, machine, stores, run, req, privWarning, gos>>

\* rootCert, rootKey := ca.StorePath()
GetStorePath ==
    /\ paths' = StorePath(goos, environ)
    /\ last' = Call("StorePath", "ok")
    /\ out' = <<>>
    /\ UNCHANGED <<env, disk, ca, nrand, tlsca, certs, pc, arg, loc>>
    /\ UNCHANGED <<goos, environ, machine, stores, run, req, privWarning, gos>>

NextPath ==
    \/ \E k \in DOMAIN EnvValues : \E v \in EnvValues[k] : Setenv(k, v)
    \/ GetStorePath

SpecPath == InitPath /\ [][NextPath]_vars

-----------------------------------------------------------------------------
(* Issuing for a request: one client flag and one identifier list per run *)

InitIssue ==
    /\ Start
    /\ goos = "linux"
    /\ environ = [NoEnviron EXCEPT !.CAROOT = "/tmp/zcert"]
    /\ env = (StorePath(goos, environ) # NoPaths)
    /\ machine = NoMachine
    /\ stores = NoStores
    /\ req \in Requests

\* err := ca.MakeCert(out, req.client, req.hosts...)
MakeCertReq(f) == MakeCert(req.client, req.hosts, f)

NextIssue ==
    \/ \E f \in {"none"} : New(f)
    \/ Zero
    \/ \E f \in IssueFaults : MakeCertReq(f)

SpecIssue == InitIssue /\ [][NextIssue]_vars

-----------------------------------------------------------------------------
(* The GetCertificate callback called by concurrent connections.  A map      *)
(* access takes time: an invocation is "reading" during certs[name] and     *)
(* "writing" during certs[name] = c.                                        *)

\* The example server: New(), log.Fatal on an error, else TLSConfig() and
\* serving.
Serve(f) ==
    LET o == NewOutcome(env, disk, nrand, f)
    IN  /\ ~tlsca.made
        /\ o.nrand <= MaxRand
        /\ disk' = o.disk
        /\ ca' = o.ca
        /\ nrand' = o.nrand
        /\ tlsca' = IF o.res = "ok" THEN [made |-> TRUE, ca |-> o.ca]
                    ELSE tlsca
        /\ last' = [Call("New", o.res) EXCEPT !.created = o.created]
        /\ UNCHANGED <<env, out, certs, pc, arg, loc>>
        /\ UNCHANGED xvars

\* A handshake calls the callback.
Hello(p, name) ==
    /\ tlsca.made
    /\ pc[p] = "idle"
    /\ pc' = [pc EXCEPT ![p] = "lookup"]
    /\ arg' = [arg EXCEPT ![p] = name]
    /\ loc' = [loc EXCEPT ![p] = NilTLS]
    /\ UNCHANGED <<env, disk, ca, nrand, out, last, tlsca, certs>>
    /\ UNCHANGED xvars

\* c, ok := certs[hello.ServerName] begins.
LookupBegin(p) ==
    /\ pc[p] = "lookup"
    /\ pc' = [pc EXCEPT ![p] = "reading"]
    /\ UNCHANGED <<env, disk, ca, nrand, out, last, tlsca, certs, arg, loc>>
    /\ UNCHANGED xvars

\* What a read of certs[name] by p may give: the entry, or the value an
\* unsynchronised write of the same entry is storing.
ReadValues(p) ==
    {certs[arg[p]]}
        \cup {loc[q] : q \in {r \in Conns \ {p} :
                                 pc[r] = "writing" /\ arg[r] = arg[p]}}

\* c, ok := certs[hello.ServerName] ends; if !ok the certificate is made.
LookupEnd(p) ==
    /\ pc[p] = "reading"
    /\ \E v \in ReadValues(p) :
          /\ loc' = [loc EXCEPT ![p] = v]
          /\ pc' = [pc EXCEPT ![p] = IF v.isnil THEN "issue" ELSE "return"]
    /\ UNCHANGED <<env, disk, ca, nrand, out, last, tlsca, certs, arg>>
    /\ UNCHANGED xvars

\* c, err = ca.MakeTLSCert(false, hello.ServerName); return nil, err
Issue(p, f) ==
    LET o == MakeTLSCertOutcome(env, disk, tlsca.ca, nrand, FALSE,
                                <<arg[p]>>, f)
    IN  /\ pc[p] = "issue"
        /\ o.nrand <= MaxRand
        /\ nrand' = o.nrand
        /\ loc' = [loc EXCEPT ![p] = o.cert]
        /\ pc' = [pc EXCEPT ![p] = IF o.res = "ok" THEN "store" ELSE "idle"]
        /\ UNCHANGED <<env, disk, ca, out, last, tlsca, certs, arg>>
        /\ UNCHANGED xvars

\* certs[hello.ServerName] = c begins.
StoreBegin(p) ==
    /\ pc[p] = "store"
    /\ pc' = [pc EXCEPT ![p] = "writing"]
    /\ UNCHANGED <<env, disk, ca, nrand, out, last, tlsca, certs, arg, loc>>
    /\ UNCHANGED xvars

\* certs[hello.ServerName] = c ends.
StoreEnd(p) ==
    /\ pc[p] = "writing"
    /\ certs' = [certs EXCEPT ![arg[p]] = loc[p]]
    /\ pc' = [pc EXCEPT ![p] = "return"]
    /\ UNCHANGED <<env, disk, ca, nrand, out, last, tlsca, arg, loc>>
    /\ UNCHANGED xvars

\* return c, nil
Return(p) ==
    /\ pc[p] = "return"
    /\ pc' = [pc EXCEPT ![p] = "idle"]
    /\ UNCHANGED <<env, disk, ca, nrand, out, last, tlsca, certs, arg, loc>>
    /\ UNCHANGED xvars

\* Two invocations access the map at once and one of them writes.
Racing ==
    \E p, q \in Conns :
        p # q /\ pc[p] = "writing" /\ pc[q] \in {"reading", "writing"}

\* The Go runtime may detect the unsynchronised map access and end the
\* process ("fatal error: concurrent map read and map write").
Fatal ==
    /\ Racing
    /\ pc' = [p \in Conns |-> "fatal"]
    /\ UNCHANGED <<env, disk, ca, nrand, out, last, tlsca, certs, arg, loc>>
    /\ UNCHANGED xvars

NextConc ==
    \/ \E f \in CreateFaults \cup LoadFaults : Serve(f)
    \/ \E p \in Conns, name \in ServerNames : Hello(p, name)
    \/ \E p \in Conns : LookupBegin(p)
    \/ \E p \in Conns : LookupEnd(p)
    \/ \E p \in Conns, f \in TLSFaults : Issue(p, f)
    \/ \E p \in Conns : StoreBegin(p)
    \/ \E p \in Conns : StoreEnd(p)
    \/ \E p \in Conns : Return(p)
    \/ Fatal

SpecConc == Init /\ [][NextConc]_vars

-----------------------------------------------------------------------------
(* Properties *)

\* The root certificate file is present (what Exists is to report).
CertOnDisk == env /\ disk.cert.state # "none"

\* Both root files are complete and belong together.
Loadable ==
    /\ env
    /\ disk.cert.state = "ok"
    /\ disk.key.state = "ok"
    /\ disk.cert.der.pub = disk.key.key

\* MakeCert was called on a CARoot without certificate or key in memory.
Unloaded == ca.cert.isnil \/ ca.key = NoKey

\* The leaf certificate the latest MakeCert wrote, parsed.
Leaf == ParseCertificate(out[2].der)

\* C1: New() reports created=true exactly when no root certificate is on
\* disk at the call; if it then succeeds, a newly generated root is in both
\* files and in the returned CARoot.  When a root certificate is on disk New
\* changes no file and draws no random value, and on success holds the
\* certificate of the file.  A New() that follows a successful New() reports
\* created=false, and when it succeeds it holds the serial of the first; it
\* succeeds whenever no read fails.
C1_NewCreatesOrLoads ==
    [][last'.op = "New" =>
        /\ last'.created = ~CertOnDisk
        /\ (~CertOnDisk /\ last'.res = "ok") =>
              /\ disk'.cert.state = "ok" /\ disk'.key.state = "ok"
              /\ disk'.cert.der.serial = ca'.cert.serial
              /\ disk'.key.key = ca'.key
              /\ ca'.cert.serial > nrand
        /\ CertOnDisk =>
              /\ disk' = disk /\ nrand' = nrand
              /\ last'.res = "ok" =>
                    /\ ca'.cert.serial = disk.cert.der.serial
                    /\ ca'.key = disk.key.key
        /\ (last.op = "New" /\ last.res = "ok") =>
              /\ ~last'.created
              /\ last'.res = "ok" => ca'.cert.serial = ca.cert.serial
        /\ last'.res = "ok" =>
              LET again == NewOutcome(env', disk', nrand', "none")
              IN  /\ again.res = "ok" /\ ~again.created
                  /\ again.disk = disk'
                  /\ again.ca.cert.serial = ca'.cert.serial
    ]_vars

\* A second New() that loaded the root the first New() created.
C1_Witness ==
    /\ last.op = "New" /\ last.res = "ok" /\ ~last.created
    /\ last.prev.op = "New" /\ last.prev.res = "ok" /\ ~last.prev.certOnDisk
    /\ ca.cert.serial = disk.cert.der.serial

\* C2: the certificate and the key of the CARoot are both unset or both set,
\* and a set certificate records the public key of the held private key.
C2_CertAndKeyConsistent ==
    /\ ca.cert.isnil <=> ca.key = NoKey
    /\ ~ca.cert.isnil => ca.cert.pub = Public(ca.key)

\* C3: a leaf that MakeCert emitted names the subject of the root as issuer,
\* is signed with the root's private key and verifies against a pool holding
\* only the root certificate: the one of the CARoot when it holds one (after
\* Create as after Load), else the one MakeCert loaded from disk.
C3_LeafVerifiesAgainstRoot ==
    (last.op = "MakeCert" /\ last.res = "ok") =>
        LET root == IF Unloaded THEN ParseCertificate(disk.cert.der)
                    ELSE ca.cert
            key == IF Unloaded THEN disk.key.key ELSE ca.key
        IN  /\ Leaf.issuer = root.subject
            /\ Leaf.sig = key
            /\ Verify(Leaf, root)

\* C4: MakeCert on a CARoot without certificate or key in memory returns an
\* error and writes nothing when the root on disk is missing or cannot be
\* loaded; a leaf it emits is issued by and signed with the root on disk;
\* and with a loadable root on disk and no failing step it does emit one.
C4_MakeCertLoadsFirst ==
    /\ (last.op = "MakeCert" /\ Unloaded) =>
          /\ ~Loadable => (last.res = "err" /\ out = <<>>)
          /\ last.res = "ok" =>
                /\ Loadable
                /\ Len(out) = 2
                /\ Leaf.issuer = disk.cert.der.subject
                /\ Leaf.sig = disk.key.key
                /\ Verify(Leaf, ParseCertificate(disk.cert.der))
    /\ (Unloaded /\ Loadable) =>
          \A c \in BOOLEAN, h \in HostLists \ {<<>>} :
              MakeCertOutcome(env, disk, ca, nrand, c, h, "none").res = "ok"

\* MakeCert on a zero CARoot issued a leaf from the root on disk.
C4_Witness ==
    /\ last.op = "MakeCert" /\ last.res = "ok"
    /\ ca.cert.isnil
    /\ Len(out) = 2 /\ Leaf.sig = disk.key.key

\* C5: for calls of the callback of one TLSConfig() made one after the other:
\* a lookup of a name without an entry that succeeds issues one certificate,
\* a server certificate for exactly that name, and stores it as the entry it
\* returns; a lookup of a name with an entry returns that entry and issues
\* nothing; the entries of different names differ; and no call of the
\* callback removes or replaces an entry.
C5_CallbackCachesPerName ==
    [][/\ last'.op = "GetCertificate" =>
              LET name == last'.hosts[1]
                  ret == last'.ret
              IN  /\ ~certs[name].isnil =>
                        /\ last'.res = "ok" /\ ret = certs[name]
                        /\ certs' = certs /\ nrand' = nrand
                  /\ (certs[name].isnil /\ last'.res = "ok") =>
                        /\ ~ret.isnil
                        /\ certs' = [certs EXCEPT ![name] = ret]
                        /\ nrand' = nrand + 1
                        /\ ret.der.dns = <<name>> /\ ret.der.ips = <<>>
                        /\ ret.der.emails = <<>> /\ ret.der.uris = <<>>
                        /\ ret.der.eku = <<"ServerAuth">> /\ ret.der.cn = ""
                        /\ \A h \in ServerNames \ {name} : certs'[h] # ret
                  /\ (certs[name].isnil /\ last'.res # "ok") =>
                        (ret.isnil /\ certs' = certs)
       /\ last'.op # "TLSConfig" =>
              \A h \in ServerNames : ~certs[h].isnil => certs'[h] = certs[h]
    ]_vars

\* The second of two successful lookups of a.test returned the stored entry.
C5_Witness ==
    /\ last.op = "GetCertificate" /\ last.res = "ok"
    /\ last.prev.op = "GetCertificate" /\ last.prev.res = "ok"
    /\ last.hosts = <<"a.test">>
    /\ certs["b.test"].isnil
    /\ ~last.ret.isnil /\ last.ret = certs["a.test"]

\* C6: no invocation of the callback writes the map certs while another
\* invocation reads or writes it (the least the claimed mutual exclusion of
\* map accesses says).
C6_CacheAccessExclusive ==
    \A p, q \in Conns :
        p # q => ~(pc[p] = "writing" /\ pc[q] \in {"reading", "writing"})

\* C7: Delete without a root certificate on disk returns no error and changes
\* nothing; a Delete of an existing root that returns no error leaves neither
\* file nor the directory; the New() that follows such a Delete reports
\* created=true and, when it succeeds, holds a root whose serial is not the
\* deleted one.
C7_DeleteThenNew ==
    [][/\ last'.op = "Delete" =>
              /\ ~CertOnDisk =>
                    (last'.res = "ok" /\ disk' = disk /\ ca' = ca)
              /\ (CertOnDisk /\ last'.res = "ok") =>
                    /\ disk'.cert.state = "none"
                    /\ disk'.key.state = "none"
                    /\ ~disk'.dir
       /\ (last'.op = "New" /\ last.op = "Delete" /\ last.res = "ok"
              /\ last.certOnDisk) =>
              /\ last'.created
              /\ last'.res = "ok" =>
                    /\ ca'.cert.serial # last.serial
                    /\ disk'.cert.der.serial # last.serial
    ]_vars

\* New() created a root right after a Delete removed a complete one.
C7_Witness ==
    /\ last.op = "New" /\ last.res = "ok" /\ last.created
    /\ last.prev.op = "Delete" /\ last.prev.res = "ok"
    /\ last.prev.certOnDisk /\ last.prev.serial > 0
    /\ ca.cert.serial # last.prev.serial

\* C8: after a Delete that returned no error neither the certificate file,
\* nor the key file, nor the directory exists.
C8_DeleteLeavesNothing ==
    (last.op = "Delete" /\ last.res = "ok") =>
        /\ disk.cert.state = "none"
        /\ disk.key.state = "none"
        /\ ~disk.dir

\* C9: after a successful Create, a zero CARoot that loads from the same
\* location holds a certificate with the serial, the subject and the public
\* key of the certificate the creating CARoot holds, and the created key.
C9_CreateLoadRoundTrip ==
    (last.op = "Create" /\ last.res = "ok") =>
        LET o == LoadOutcome(env, disk, ZeroCA, "none")
        IN  /\ o.res = "ok"
            /\ o.ca.cert.serial = ca.cert.serial
            /\ o.ca.cert.subject = ca.cert.subject
            /\ o.ca.cert.pub = ca.cert.pub
            /\ o.ca.key = ca.key

\* C10: MakeCert with an empty identifier list returns an error and emits
\* nothing, with clientCert false as with clientCert true.
C10_EmptyHostsRejected ==
    (last.op = "MakeCert" /\ last.hosts = <<>>) =>
        (last.res = "err" /\ out = <<>>)

\* C11: an Install or Uninstall that got to its loop has called every
\* backend that is on the system exactly once, in the order NSS, Java, Unix,
\* Darwin, Windows, also after a backend failed; it returns nil exactly when
\* every call returned nil, and otherwise it returns an error that holds the
\* error of each backend that failed.
C11_FanOutCollectsErrors ==
    (last.op \in {"Install", "Uninstall"} /\ run.loaded) =>
        /\ run.calls = Find(goos, machine)
        /\ [i \in DOMAIN run.rets |-> run.rets[i].store] = run.calls
        /\ last.res = "ok" <=>
              \A i \in DOMAIN run.rets : run.rets[i].err = NoErr
        /\ \A i \in DOMAIN run.rets :
              run.rets[i].err # NoErr =>
                  /\ last.res = "err"
                  /\ \E j \in DOMAIN run.errs : run.errs[j] = run.rets[i]

\* C12: an Uninstall that got to its loop, for every backend it called:
\* when the store of the backend held no trust record for the root, the call
\* of the backend returned nil and the store of the backend is as before.
C12_UninstallAbsentIsNoError ==
    [][(last'.op = "Uninstall" /\ run'.loaded) =>
          \A i \in DOMAIN run'.rets :
              Records(run'.rets[i].store, stores,
                      Loaded(env, disk, ca, "none").ca.cert) = {} =>
                  /\ run'.rets[i].err = NoErr
                  /\ StoreOf(run'.rets[i].store, stores')
                        = StoreOf(run'.rets[i].store, stores)
    ]_vars

\* The store of backend b holds exactly one trust record for root c: one in
\* every NSS database for NSS.
OneRecord(b, m, st, c) ==
    IF b = "NSS"
    THEN \A i \in DOMAIN st.nss :
             HasDB(m.profiles[i]) =>
                 Cardinality({r \in st.nss[i] : r.name = caName(c)}) = 1
    ELSE Cardinality(Records(b, st, c)) = 1

\* C13: after an Install (the first, or one that follows another Install),
\* for every backend whose call returned nil: the store of the backend holds
\* exactly one trust record for the root, and HasCert of the backend is true
\* for the root.
C13_InstallLeavesOneRecord ==
    (last.op = "Install" /\ run.loaded) =>
        \A i \in DOMAIN run.rets :
            run.rets[i].err = NoErr =>
                /\ OneRecord(run.rets[i].store, machine, stores,
                             Loaded(env, disk, ca, "none").ca.cert)
                /\ HasCert(run.rets[i].store, goos, machine, stores,
                           Loaded(env, disk, ca, "none").ca.cert)

\* The tests of the claim on one identifier: a valid IP literal; a mail
\* address that equals the input; a URI with scheme and host.
IsIP(h) == ParseIP(h)
IsExactEmail(h) == ~ParseAddress(h).err /\ ParseAddress(h).Address = h
IsAbsoluteURI(h) == ~Parse(h).err /\ Parse(h).Scheme # "" /\ Parse(h).Host # ""

\* The elements of a sequence.
Range(seq) == {seq[i] : i \in DOMAIN seq}

\* C14: in the certificate a successful MakeCert wrote, the IP addresses are
\* the identifiers that are IP literals; the email addresses those of the
\* others that parse as a mail address equal to the input; the URIs those of
\* the remaining ones that have a scheme and a host; the DNS names all the
\* rest; each list in the order of the arguments, and every identifier in
\* exactly one list.
C14_IdentifiersClassifiedInOrder ==
    (last.op = "MakeCert" /\ last.res = "ok") =>
        /\ Leaf.ips = SelectSeq(last.hosts, IsIP)
        /\ Leaf.emails = SelectSeq(last.hosts,
                                   LAMBDA h : ~IsIP(h) /\ IsExactEmail(h))
        /\ Leaf.uris = SelectSeq(last.hosts,
                                 LAMBDA h : /\ ~IsIP(h) /\ ~IsExactEmail(h)
                                            /\ IsAbsoluteURI(h))
        /\ Leaf.dns = SelectSeq(last.hosts,
                                LAMBDA h : /\ ~IsIP(h) /\ ~IsExactEmail(h)
                                           /\ ~IsAbsoluteURI(h))
        /\ Len(Leaf.ips) + Len(Leaf.emails) + Len(Leaf.uris) + Len(Leaf.dns)
              = Len(last.hosts)

\* A certificate for a display-name address and an exact address, in this
\* order: the first is a DNS name, the second an email address.
C14_Witness ==
    /\ last.op = "MakeCert" /\ last.res = "ok"
    /\ last.hosts = <<"Bob <bob@example.com>", "user@example.com">>
    /\ Leaf.dns = <<"Bob <bob@example.com>">>
    /\ Leaf.emails = <<"user@example.com">>

\* C15: in the certificate a successful MakeCert wrote: a client certificate
\* has the usages client-auth and server-auth and the first identifier as
\* common name; another certificate has server-auth exactly when it has an IP
\* address or a DNS name, and no client-auth; both have code-signing and
\* email-protection exactly when they have an email address, and nothing
\* else.
C15_ExtKeyUsageFromContent ==
    (last.op = "MakeCert" /\ last.res = "ok") =>
        /\ last.client =>
              /\ {"ClientAuth", "ServerAuth"} \subseteq Range(Leaf.eku)
              /\ Leaf.cn = last.hosts[1]
        /\ ~last.client =>
              /\ "ClientAuth" \notin Range(Leaf.eku)
              /\ "ServerAuth" \in Range(Leaf.eku)
                    <=> (Leaf.ips # <<>> \/ Leaf.dns # <<>>)
        /\ "CodeSigning" \in Range(Leaf.eku) <=> Leaf.emails # <<>>
        /\ "EmailProtection" \in Range(Leaf.eku) <=> Leaf.emails # <<>>
        /\ Range(Leaf.eku) \subseteq {"ClientAuth", "ServerAuth",
                                      "CodeSigning", "EmailProtection"}
        /\ Cardinality(Range(Leaf.eku)) = Len(Leaf.eku)

\* A server certificate for an IP address and an email address: server-auth
\* stays, code-signing and email-protection are added.
C15_Witness ==
    /\ last.op = "MakeCert" /\ last.res = "ok" /\ ~last.client
    /\ last.hosts = <<"10.0.0.1", "user@example.com">>
    /\ Leaf.eku = <<"ServerAuth", "CodeSigning", "EmailProtection">>

\* The two paths below directory dir.
Below(dir) ==
    [cert |-> dir \o <<"zcert", "rootCA.pem">>,
     key |-> dir \o <<"zcert", "rootCA-key.pem">>]

\* C16: what StorePath returned is decided by GOOS and the four environment
\* variables alone: below CAROOT when that is set; else on Windows below
\* LocalAppData; else below XDG_DATA_HOME when that is set; else on macOS
\* below HOME/Library/Application Support and on another Unix below
\* HOME/.local/share.  Below dir means dir/zcert/rootCA.pem and
\* dir/zcert/rootCA-key.pem.  Both strings are empty exactly when the
\* variable that decides is empty, and never only one of them.
C16_StorePathPriority ==
    last.op = "StorePath" =>
        /\ environ.CAROOT # "" => paths = Below(<<environ.CAROOT>>)
        /\ (environ.CAROOT = "" /\ goos = "windows") =>
              /\ environ.LocalAppData # ""
                    => paths = Below(<<environ.LocalAppData>>)
              /\ environ.LocalAppData = "" => paths = NoPaths
        /\ (environ.CAROOT = "" /\ goos # "windows") =>
              /\ environ.XDG_DATA_HOME # ""
                    => paths = Below(<<environ.XDG_DATA_HOME>>)
              /\ (environ.XDG_DATA_HOME = "" /\ environ.HOME = "")
                    => paths = NoPaths
              /\ (environ.XDG_DATA_HOME = "" /\ environ.HOME # "") =>
                    /\ goos = "darwin" =>
                          paths = Below(<<environ.HOME, "Library",
                                          "Application Support">>)
                    /\ goos # "darwin" =>
                          paths = Below(<<environ.HOME, ".local", "share">>)
        /\ (paths.cert = <<>>) <=> (paths.key = <<>>)

\* On Windows without CAROOT and LocalAppData, StorePath returned two empty
\* strings although XDG_DATA_HOME and HOME are set.
C16_Witness ==
    /\ last.op = "StorePath"
    /\ goos = "windows"
    /\ environ.CAROOT = "" /\ environ.LocalAppData = ""
    /\ environ.XDG_DATA_HOME # "" /\ environ.HOME # ""
    /\ paths = NoPaths

\* C17: no MakeCert, no MakeTLSCert and no GetCertificate callback changes
\* the directory, the root certificate file or the root key file, nor the
\* certificate and key the CARoot of the caller holds, nor those of the copy
\* the callback works on; what MakeCert writes goes to its io.Writer.
C17_IssuanceLeavesRoot ==
    [][last'.op \in {"MakeCert", "MakeTLSCert", "GetCertificate"} =>
          /\ disk' = disk
          /\ ca' = ca
          /\ tlsca' = tlsca
          /\ (last'.op = "MakeCert" /\ last'.res = "ok") =>
                (Len(out') = 2 /\ out'[2].type = "CERTIFICATE")
    ]_vars

\* A callback issued after a MakeCert issued, both from the root on disk,
\* and the CARoot of the caller is still the zero value.
C17_Witness ==
    /\ last.op = "GetCertificate" /\ last.res = "ok"
    /\ last.prev.op = "MakeCert" /\ last.prev.res = "ok"
    /\ ca = ZeroCA
    /\ Loadable

\* C18: no call ends the process: whatever a call of the library did, it
\* returned, with nil or with an error value.
C18_NoCallEndsProcess ==
    /\ last.res \in {"ok", "err"}
    /\ ~Crash(run.crash)

\* C19: a Create that finds the root certificate file at the storage location
\* returns an error, changes neither the directory nor the two files nor the
\* certificate and key of the CARoot, and draws no random value; so a Create
\* that succeeded found no root certificate file.
C19_CreateKeepsExistingRoot ==
    [][last'.op = "Create" =>
          /\ CertOnDisk =>
                /\ last'.res = "err"
                /\ disk' = disk
                /\ ca' = ca
                /\ nrand' = nrand
          /\ last'.res = "ok" => ~CertOnDisk
    ]_vars

\* A Create on a loaded CARoot whose root is on disk returned an error.
C19_Witness ==
    /\ last.op = "Create" /\ last.res = "err" /\ last.certOnDisk
    /\ Loadable
    /\ ~ca.cert.isnil /\ ca.cert.serial = disk.cert.der.serial

\* C20: after an Uninstall on Windows no entry of the ROOT store has the
\* serial of the root, and when no entry had it before, the call of the
\* Windows backend returned an error.
C20_WindowsUninstallReportsNotFound ==
    [][(last'.op = "Uninstall" /\ run'.loaded /\ goos = "windows") =>
          \A i \in DOMAIN run'.rets :
              run'.rets[i].store = "Windows" =>
                  /\ Records("Windows", stores',
                             Loaded(env, disk, ca, "none").ca.cert) = {}
                  /\ Records("Windows", stores,
                             Loaded(env, disk, ca, "none").ca.cert) = {}
                        => run'.rets[i].err # NoErr
    ]_vars

\* C21: on a Unix without a known trust directory (trustCmd is nil), in an
\* Install that got to its loop the call of the Unix backend returned nil,
\* so that Install returns nil when no other backend failed, and no tee and
\* no trust command was run.
C21_UnixInstallDegrades ==
    (last.op = "Install" /\ run.loaded /\ goos = "linux" /\ ~machine.trust) =>
        /\ \A i \in DOMAIN run.rets :
              run.rets[i].store = "Unix" => run.rets[i].err = NoErr
        /\ (\A i \in DOMAIN run.rets :
               run.rets[i].store # "Unix" => run.rets[i].err = NoErr)
              => last.res = "ok"
        /\ \A j \in DOMAIN run.cmds :
              run.cmds[j].argv[1] \notin {"tee", "update"}


\* C22: a certutil or keytool command is first run directly; it is run
\* again, once, through the privilege helper exactly when the direct run
\* failed with the tool's permission marker in its output and the platform
\* is not Windows; the second run has the same program and arguments, and
\* the call returns the result of the last run made.
C22_ReExecutedOnceOnMarker ==
    last.op \in {"execCertutil", "execKeytool"} =>
        /\ Len(run.runs) \in {1, 2}
        /\ run.runs[1].cmd.via = ""
        /\ Len(run.runs) = 2 <=>
               (~run.runs[1].ok /\ run.runs[1].marker /\ goos # "windows")
        /\ Len(run.runs) = 2 =>
               /\ run.runs[2].cmd.argv = run.runs[1].cmd.argv
               /\ run.runs[2].cmd = privCmd(machine, run.runs[1].cmd.argv)
        /\ last.res = "ok" <=> run.runs[Len(run.runs)].ok

\* A keytool command that failed on the protected keystore and succeeded
\* through sudo.
C22_Witness ==
    /\ last.op = "execKeytool"
    /\ Len(run.runs) = 2
    /\ run.runs[1].marker
    /\ run.runs[2].cmd.via = "sudo"
    /\ run.runs[2].ok
    /\ last.res = "ok"


\* C23: privCmd returns the command unwrapped for root, else through sudo
\* when sudo is in PATH, else through doas when doas is in PATH, else
\* unwrapped after the warning; however many calls are made, one after the
\* other or at once, the warning is written at most once, and only by a
\* call that found neither root nor sudo nor doas.
C23_PrivCmdOrderWarnsOnce ==
    /\ privWarning.emitted <= 1
    /\ privWarning.emitted = 1 =>
           ~machine.priv.root /\ ~machine.priv.sudo /\ ~machine.priv.doas
    /\ \A g \in Goroutines :
           (gos[g].pc = "idle" /\ gos[g].argv # <<>>) =>
               /\ gos[g].cmd.argv = gos[g].argv
               /\ machine.priv.root => gos[g].cmd.via = ""
               /\ (~machine.priv.root /\ machine.priv.sudo) =>
                      gos[g].cmd.via = "sudo"
               /\ (~machine.priv.root /\ ~machine.priv.sudo
                       /\ machine.priv.doas) => gos[g].cmd.via = "doas"
               /\ (~machine.priv.root /\ ~machine.priv.sudo
                       /\ ~machine.priv.doas) =>
                      gos[g].cmd.via = "" /\ privWarning.emitted = 1

\* Two goroutines were both before privWarning.Do, the first has returned
\* its unwrapped command and the warning is written once.
C23_Witness ==
    /\ gos["g1"].pc = "idle" /\ gos["g1"].argv # <<>>
    /\ gos["g1"].cmd.via = ""
    /\ ~machine.priv.root
    /\ gos["g2"].pc = "idle" /\ gos["g2"].argv # <<>>
    /\ privWarning = [done |-> TRUE, emitted |-> 1]


\* The profiles of machine m that hold a database, and those of them for
\* which certutil -A of the file cannot succeed: certutil or the file is
\* missing, or the database is protected and the command cannot be run as
\* root.
DBs(m) == {i \in 1..Len(m.profiles) : HasDB(m.profiles[i])}
AddFails(os, m, file) ==
    {i \in DBs(m) :
        \/ ~m.certutil
        \/ file.state # "ok"
        \/ /\ m.profiles[i].ro
           /\ ~m.priv.root
           /\ ~((m.priv.sudo \/ m.priv.doas) /\ os # "windows")}

\* The profiles the certutil -A commands among cmds were pointed at, and
\* whether they were run in the order of the profiles.
Added(cmds) ==
    {cmds[j].argv[4] :
        j \in {k \in DOMAIN cmds : /\ cmds[k].argv[1] = "certutil"
                                   /\ cmds[k].argv[2] = "-A"}}
InOrder(cmds) ==
    \A j, k \in DOMAIN cmds :
        (/\ j < k
         /\ cmds[j].argv[1] = "certutil" /\ cmds[j].argv[2] = "-A"
         /\ cmds[k].argv[1] = "certutil" /\ cmds[k].argv[2] = "-A") =>
            cmds[j].argv[4] <= cmds[k].argv[4]

\* The least element of a set of numbers.
Min(S) == CHOOSE k \in S : \A j \in S : k <= j

\* C24: NSS.Install runs certutil -A for the profiles in their order and
\* only for those that hold a database; without any database it returns the
\* error that none was found; the first database for which certutil fails
\* ends the loop: the error returned is that of the command, the databases
\* before it hold the certificate, and that database and every later one
\* are as before and no command is run for a later one.
C24_NSSInstallStopsAtFailure ==
    [][(last'.op = "Install" /\ run'.loaded) =>
          \A i \in DOMAIN run'.rets :
              run'.rets[i].store = "NSS" =>
                  /\ Added(run'.cmds) \subseteq DBs(machine)
                  /\ InOrder(run'.cmds)
                  /\ DBs(machine) = {} =>
                         run'.rets[i].err = "no security database found"
                  /\ AddFails(goos, machine, RootFile(env, disk)) = {} =>
                         /\ Added(run'.cmds) = DBs(machine)
                         /\ run'.rets[i].err # "certutil -A"
                  /\ AddFails(goos, machine, RootFile(env, disk)) # {} =>
                         /\ run'.rets[i].err = "certutil -A"
                         /\ Added(run'.cmds) =
                                {k \in DBs(machine) :
                                    k <= Min(AddFails(goos, machine,
                                                      RootFile(env, disk)))}
                         /\ \A k \in DOMAIN stores.nss :
                                IF k < Min(AddFails(goos, machine,
                                                    RootFile(env, disk)))
                                THEN k \in DBs(machine) =>
                                         \E r \in stores'.nss[k] :
                                             r.name = caName(
                                                 Loaded(env, disk, ca,
                                                        "none").ca.cert)
                                ELSE stores'.nss[k] = stores.nss[k]
    ]_vars

\* An Install on a machine whose first database is protected and whose
\* third is not, without root, sudo or doas: certutil -A was run for the
\* first database only and the third holds no record.
C24_Witness ==
    /\ last.op = "Install" /\ run.loaded
    /\ Len(machine.profiles) = 3
    /\ DBs(machine) = {1, 3}
    /\ AddFails(goos, machine, RootFile(env, disk)) = {1}
    /\ \E i \in DOMAIN run.rets :
           run.rets[i].store = "NSS" /\ run.rets[i].err = "certutil -A"
    /\ Added(run.cmds) = {1}
    /\ stores.nss[3] = {}


\* C25: whatever Create and Delete calls were made from an empty storage
\* location, and whichever of their file operations failed, the root
\* certificate file is there only if the root key file is there; so when
\* Exists() reports true both files are present.
C25_CertOnlyWithKey ==
    /\ disk.cert.state # "none" => disk.key.state # "none"
    /\ Exists(env, disk) =>
           (disk.cert.state # "none" /\ disk.key.state # "none")

\* A Delete removed the certificate and failed to remove the key, and the
\* Create after it wrote the key and failed while writing the certificate.
C25_Witness ==
    /\ last.op = "Create" /\ last.res = "err"
    /\ last.prev.op = "Delete" /\ last.prev.res = "err"
    /\ last.prev.certOnDisk /\ ~last.certOnDisk
    /\ Exists(env, disk)
    /\ disk.cert.state = "partial" /\ disk.key.state = "ok"

=============================================================================
